---- MODULE Spec2Model ----
(***************************************************************************)
(* Export job engine of dashboard/backend/main.py: the job record kept in  *)
(* the export_jobs collection, the request handler that creates it         *)
(* (start_async_export), the worker thread that runs the export            *)
(* (run_background_export, download_screenshots_concurrent,                *)
(* download_single_screenshot) and the cancel handler (cancel_export_job). *)
(*                                                                         *)
(* One job is followed from creation to the end of its worker.  Job ids    *)
(* are fresh uuid4 values and a worker and a cancel request only ever      *)
(* touch the record of their own job id, so jobs do not interact through   *)
(* the record.                                                             *)
(*                                                                         *)
(* The document store, the blob store and the HTTP origin are external:    *)
(* every read of them returns a value chosen with \E (found or not, empty  *)
(* or not, or an exception), and what the worker read is kept in its       *)
(* local variables, as in the code.                                        *)
(***************************************************************************)
EXTENDS Integers, Sequences, FiniteSets, TLC

\* ------------------------------------------------------------------ bounds
\* Number of cancel requests issued against the job.
MaxCancels == 1
\* Number of event documents a query of the events collection returns.
MaxEvents == 2
\* Largest export_level a request carries (AsyncExportRequest.export_level
\* is a plain int, no range is enforced on it).
MaxLevel == 4

Levels == 1..MaxLevel
Cancels == 1..MaxCancels

\* -------------------------------------------------------------- vocabulary
Absent == "<absent>"
ExcMsgs == {"", "boom"}
\* (start_date, end_date) of a request: no window, or both dates given.
Windows == {<<Absent, Absent>>, <<"2025-01-05", "2025-01-07">>}
ReadOutcomes == {"fail", "empty", "data"}
UrlKinds == {"fb_http", "plain_http", "fb_other", "other"}
HttpOutcomes == {"200", "non200", "exc"}
Contents == {"empty", "data"}

VARIABLES
    job,            \* the document export_jobs/{job_id}
    hpc,            \* start_async_export: position of the request handler
    createResp,     \* start_async_export: what the request returned
    wpc,            \* run_background_export: position of the worker thread
    participant_data, \* worker local: metadata record found
    seen,           \* worker: what each store call of the run came to
    zipOpened,      \* worker local: the local archive file was created
    archive,        \* worker local: names of the JSON entries in the archive
    shots,          \* worker local: screenshots/ entries, in write order
    screenshot_infos, \* worker local: attachment references collected
    bucket,         \* download_screenshots_concurrent: bucket handle
    inflight,       \* download_screenshots_concurrent: futures not completed
    downloaded,     \* download_screenshots_concurrent: results, in order
    retrievable,    \* attachments some route could deliver
    idx,            \* worker local: loop index over downloaded
    raised,         \* worker: the step whose exception reached the handler
    err,            \* worker: str(e) of that exception
    uploaded,       \* blob store: exports/{participant}/{job_id}.zip exists
    download_url,   \* worker local: signed URL
    EXPORT_INDEX,   \* process-wide dict: has an entry for this export id
    cpc,            \* cancel_export_job: position of each cancel request
    cancelResp,     \* cancel_export_job: what each cancel request returned
    \* ---- safety-alert cache (in memory, one per process)
    SAFETY_ALERT_CACHE, \* the dict {alerts, updated_at, status, error}
    stop_event,     \* _safety_alert_stop_event is set
    tick,           \* refresh_safety_alert_cache: position and locals
    manual,         \* force_refresh_safety_alerts: position and locals
    reader,         \* get_safety_alerts: the last response
    fetches,        \* live fetches started so far
    utcnow,         \* the clock datetime.utcnow() reads
    lastSwap,       \* what the last successful swap stored, and whose fetch
    swapLog,        \* every (fetch result, timestamp) a swap received
    \* ---- overall-status cache (one document of the document store)
    store,          \* the event, check-in and alert records of the store
    tz_offset,      \* half days the server's local time is ahead of UTC
    clock,          \* the UTC instant of the wall clock
    cacheDoc,       \* the document dashboard_cache/overall_status
    refresh,        \* refresh_dashboard_cache: position and locals
    overall,        \* get_overall_status: the last request and response
    writes,         \* the snapshots the refreshes computed, in write order
    entryCalc,      \* one participant's entry, built and read back
    \* ---- single calls followed on their own
    statsCalc,      \* compute_participant_stats: one call and its result
    registryCalc,   \* get_all_participant_ids: one call and its result
    pool,           \* download_screenshots_concurrent: the worker pool
    session,        \* get_download_session: the global and its callers
    alertCalc,      \* fetch_live_safety_alerts: one call and its result
    progress        \* run_background_export: the progress writes of a job

exportVars == <<job, hpc, createResp, wpc, participant_data, seen,
                zipOpened, archive, shots, screenshot_infos, bucket, inflight,
                downloaded, retrievable, idx, raised, err, uploaded,
                download_url, EXPORT_INDEX, cpc, cancelResp>>
alertVars == <<SAFETY_ALERT_CACHE, stop_event, tick, manual, reader, fetches,
               utcnow, lastSwap, swapLog>>
statusVars == <<store, tz_offset, clock, cacheDoc, refresh, overall, writes>>
entryVars == <<entryCalc>>
moreVars == <<session, alertCalc, progress>>
callVars == <<statsCalc, registryCalc, pool, moreVars>>
\* The caches share no state with the export job engine.
cacheVars == <<alertVars, statusVars, entryVars, callVars>>
vars == <<exportVars, cacheVars>>

workerLocals == <<participant_data, seen, zipOpened, archive, shots,
                  screenshot_infos, bucket, inflight, downloaded, retrievable,
                  idx, raised, err, uploaded, download_url, EXPORT_INDEX>>
handlerVars == <<hpc, createResp>>
cancelVars == <<cpc, cancelResp>>

\* ------------------------------------------------------------ job record
NoJob ==
    [exists |-> FALSE, status |-> Absent, exportLevel |-> 0,
     startDate |-> Absent, endDate |-> Absent,
     startedAt |-> FALSE, completedAt |-> FALSE, cancelledAt |-> FALSE,
     error |-> Absent, downloadUrl |-> Absent, filename |-> Absent,
     screenshotTotal |-> -1, screenshotProgress |-> -1]

\* job_ref.set({... "status": "pending" ...})
PendingRecord(level, sd, ed) ==
    [NoJob EXCEPT !.exists = TRUE, !.status = "pending", !.exportLevel = level,
                  !.startDate = sd, !.endDate = ed]

\* level_names.get(export_level, 'meta')
LevelName(level) ==
    CASE level = 1 -> "meta"
      [] level = 2 -> "ocr"
      [] level = 3 -> "full"
      [] OTHER -> "meta"

Digit(n) ==
    CASE n = 0 -> "0" [] n = 1 -> "1" [] n = 2 -> "2" [] n = 3 -> "3"
      [] n = 4 -> "4" [] n = 5 -> "5" [] n = 6 -> "6" [] n = 7 -> "7"
      [] n = 8 -> "8" [] OTHER -> "9"

\* filename = f"socialscope_export_{participant_id}_L{export_level}_{...}"
ExportFilename(level, sd, ed) ==
    "socialscope_export_P_L" \o Digit(level) \o "_" \o LevelName(level)
        \o (IF sd # Absent /\ ed # Absent
              THEN "_" \o sd \o "_to_" \o ed ELSE "")
        \o ".zip"

\* ------------------------------------------- safety-alert cache: start
\* None for a message and for a timestamp (timestamps are counted from 1).
NoneMsg == "<None>"
NoneTime == 0

\* SAFETY_ALERT_CACHE = {"alerts": [], "updated_at": None,
\*                       "status": "never_run", "error": None}
SafetyAlertCacheAtStartup ==
    [alerts |-> <<>>, updated_at |-> NoneTime, status |-> "never_run",
     error |-> NoneMsg]

NoResponse ==
    [code |-> 0, alerts |-> <<>>, refreshedAt |-> NoneTime, status |-> Absent,
     error |-> NoneMsg]

IdleCall == [pc |-> "idle", fetch |-> 0, alerts |-> <<>>, exc |-> NoneMsg]

AlertCacheAtStartup ==
    /\ SAFETY_ALERT_CACHE = SafetyAlertCacheAtStartup
    /\ stop_event = FALSE
    /\ tick = [call |-> [IdleCall EXCEPT !.pc = "loop"], completed |-> 0]
    /\ manual = [call |-> IdleCall, resp |-> [code |-> 0, count |-> 0,
                                             refreshedAt |-> NoneTime]]
    /\ reader = [resp |-> NoResponse, ticks |-> 0, swaps |-> 0,
                 during |-> FALSE]
    /\ fetches = 0
    /\ utcnow = 1
    /\ lastSwap = [alerts |-> <<>>, updated_at |-> NoneTime, fetch |-> 0]
    /\ swapLog = {}

ExportAtStartup ==
    /\ job = NoJob
    /\ hpc = "idle"
    /\ createResp = Absent
    /\ wpc = "unstarted"
    /\ participant_data = FALSE
    /\ seen = [participant |-> "unread", checkins |-> "unread",
               alerts |-> "unread", events |-> "unread", storage |-> "unused"]
    /\ zipOpened = FALSE
    /\ archive = {}
    /\ shots = <<>>
    /\ screenshot_infos = {}
    /\ bucket = "unset"
    /\ inflight = {}
    /\ downloaded = <<>>
    /\ retrievable = {}
    /\ idx = 0
    /\ raised = "none"
    /\ err = Absent
    /\ uploaded = FALSE
    /\ download_url = Absent
    /\ EXPORT_INDEX = FALSE
    /\ cpc = [c \in Cancels |-> "idle"]
    /\ cancelResp = [c \in Cancels |-> Absent]

\* ------------------------------------------ overall-status cache: start
\* cache_doc.exists is False until a refresh has run.
NoDoc ==
    [exists |-> FALSE, participants |-> <<>>, refreshedAt |-> NoneTime,
     startDate |-> <<>>, endDate |-> <<>>, participantCount |-> 0]

\* The two endpoints that run the refresh.
Refreshers == {"admin", "scheduler"}

IdleRefresh ==
    [pc |-> "idle", start_dt |-> 0, end_dt |-> 0, cached_data |-> <<>>,
     degraded |-> FALSE, code |-> 0]

NoOverall ==
    [code |-> 0, start_date |-> <<>>, end_date |-> <<>>, page |-> 0,
     page_size |-> 0, payload |-> NoDoc, participants |-> <<>>, total |-> 0,
     total_pages |-> 0, fromCache |-> FALSE, refreshedAt |-> NoneTime,
     failed |-> "none"]

NoEntry ==
    [id |-> 0, study_start_date |-> <<>>, dailyStatus |-> <<>>,
     weeklyScreenshots |-> 0, weeklyCheckins |-> 0, weeklyReddit |-> 0,
     weeklyTwitter |-> 0, overallCompliance |-> 0]

IdleEntryCalc ==
    [pc |-> "idle", daily_status |-> <<>>, entry |-> NoEntry,
     start_date |-> <<>>, end_date |-> <<>>, result |-> NoEntry]

\* No request has reached the cache endpoints.
StatusCacheAtStartup ==
    /\ cacheDoc = NoDoc
    /\ refresh = [k \in Refreshers |-> IdleRefresh]
    /\ overall = NoOverall
    /\ writes = <<>>

\* No call is being followed.
IdleStats == [pc |-> "idle", failed |-> "none", daily_status |-> <<>>]
IdleRegistry == [pc |-> "idle", participants |-> <<>>,
                 valid_participants |-> <<>>, enrolled_only |-> TRUE,
                 result |-> <<>>]
IdlePool == [pc |-> "idle", max_workers |-> 0, pending |-> <<>>,
             queued |-> <<>>, threads |-> 0, running |-> {}, done |-> {},
             results |-> <<>>]

\* _download_session = None, and no thread in get_download_session.
NoSession == [global |-> 0, created |-> 0, mounted |-> <<>>, thr |-> <<>>]
IdleAlertCalc == [pc |-> "idle", alert_docs |-> <<>>, ema_docs |-> <<>>,
                  alerts |-> <<>>]

IdleProgress == [pc |-> "idle", total |-> 0, screenshotTotal |-> -1,
                 downloaded |-> 0, idx |-> 0, log |-> <<>>]

MoreAtStartup ==
    /\ session = NoSession
    /\ alertCalc = IdleAlertCalc
    /\ progress = IdleProgress

CallsAtStartup ==
    /\ statsCalc = IdleStats
    /\ registryCalc = IdleRegistry
    /\ pool = IdlePool
    /\ MoreAtStartup

Init ==
    /\ ExportAtStartup
    /\ AlertCacheAtStartup
    /\ StatusCacheAtStartup
    /\ store = {}
    /\ tz_offset = 0
    /\ clock = 0
    /\ entryCalc = IdleEntryCalc
    /\ CallsAtStartup

\* ------------------------------------------------- start_async_export
\* Validation of the participant, then job_ref.set({... "pending" ...}).
\* found: get_participant_data returned a record, or the events check
\* returned a document.  lookupFails: a store read raised (HTTP 500).
CreateJob ==
    /\ hpc = "idle"
    /\ \E lookupFails \in BOOLEAN, found \in BOOLEAN, level \in Levels,
          w \in Windows :
         IF lookupFails
           THEN /\ hpc' = "returned"
                /\ createResp' = "500"
                /\ UNCHANGED job
           ELSE IF ~found
             THEN /\ hpc' = "returned"
                  /\ createResp' = "404"
                  /\ UNCHANGED job
             ELSE /\ job' = PendingRecord(level, w[1], w[2])
                  /\ hpc' = "set"
                  /\ UNCHANGED createResp
    /\ UNCHANGED <<wpc, workerLocals, cancelVars>>
    /\ UNCHANGED cacheVars

\* thread.start(), and the return that follows it: the handler does not
\* join the thread, so its response is fixed before the worker's first step.
\*   return {"jobId": job_id, "status": "pending", ...}
StartThread ==
    /\ hpc = "set"
    /\ hpc' = "returned"
    /\ createResp' = "pending"
    /\ wpc' = "start"
    /\ UNCHANGED <<job, workerLocals, cancelVars>>
    /\ UNCHANGED cacheVars

\* ------------------------------------------------------ job_ref.update
\* A write of a status (with the fields written along with it).
WriteStatus(rec) == job' = rec

\* ------------------------------------------------ run_background_export
WorkerReturned == wpc \in {"returned_completed", "returned_failed",
                           "returned_notfound"}

\* An exception leaves the try block: control goes to the except handler.
Raise(step, msg) ==
    /\ raised' = step
    /\ err' = msg
    /\ wpc' = "fail"

\* job_ref.update({"status": "processing", "startedAt": ...})
W_Start ==
    /\ wpc = "start"
    /\ WriteStatus([job EXCEPT !.status = "processing", !.startedAt = TRUE])
    /\ wpc' = "lookup"
    /\ UNCHANGED <<workerLocals, handlerVars, cancelVars>>
    /\ UNCHANGED cacheVars

\* Mutant: the events check is read the wrong way round.
ParticipantMissing_Inverted(pd, events_check) == ~pd /\ events_check

\* if not participant_data: ... if not events_check:
ParticipantMissing(pd, events_check) == ~pd /\ ~events_check

\* get_participant_data, get_participant_ref, the events check.
W_Lookup ==
    /\ wpc = "lookup"
    /\ \/ \E msg \in ExcMsgs :
            /\ Raise("lookup", msg)
            /\ UNCHANGED <<participant_data, seen>>
       \/ \E pd \in BOOLEAN, events_check \in BOOLEAN :
            /\ pd => ~events_check   \* the events check runs only without metadata
            /\ participant_data' = pd
            /\ seen' = [seen EXCEPT !.participant =
                          IF pd THEN "metadata"
                          ELSE IF events_check THEN "events_only" ELSE "nothing"]
            /\ wpc' = IF ParticipantMissing(pd, events_check)
                        THEN "notfound" ELSE "sections"
            /\ UNCHANGED <<raised, err>>
    /\ UNCHANGED <<job, zipOpened, archive, shots, screenshot_infos,
                   bucket, inflight, downloaded, retrievable, idx, uploaded,
                   download_url, EXPORT_INDEX, handlerVars, cancelVars>>
    /\ UNCHANGED cacheVars

\* job_ref.update({"status": "failed", "error": "Participant not found"}); return
W_NotFound ==
    /\ wpc = "notfound"
    /\ WriteStatus([job EXCEPT !.status = "failed",
                               !.error = "Participant not found",
                               !.completedAt = TRUE])
    /\ wpc' = "returned_notfound"
    /\ UNCHANGED <<workerLocals, handlerVars, cancelVars>>
    /\ UNCHANGED cacheVars

\* Mutant: the EMA export has no try block of its own.
CheckinFailurePropagates_NoTry(ck) == TRUE

\* The try/except around the EMA export and the one around the alert export:
\* whether a failure of that sub-collection query leaves its block.
CheckinFailurePropagates(ck) == FALSE
AlertFailurePropagates(al) == FALSE

\* A section is written only when its query succeeded and returned records.
SectionEntries(pd, ck, al) ==
    (IF pd THEN {"participant_metadata.json"} ELSE {})
      \cup (IF ck = "data" THEN {"ema_responses.json"} ELSE {})
      \cup (IF al = "data" THEN {"safety_alerts.json"} ELSE {})

\* zipfile.ZipFile(export_path, 'w'), metadata, EMA responses, safety alerts.
W_Sections ==
    /\ wpc = "sections"
    /\ \/ \E msg \in ExcMsgs :
            /\ Raise("zip", msg)
            /\ UNCHANGED <<zipOpened, archive, seen>>
       \/ \E ck \in ReadOutcomes, al \in ReadOutcomes :
            /\ zipOpened' = TRUE
            /\ IF ck = "fail" /\ CheckinFailurePropagates(ck)
                 THEN /\ Raise("checkins", "boom")
                      /\ seen' = [seen EXCEPT !.checkins = ck]
                      /\ archive' = SectionEntries(participant_data, "fail", "fail")
                 ELSE IF al = "fail" /\ AlertFailurePropagates(al)
                   THEN /\ Raise("alerts", "boom")
                        /\ seen' = [seen EXCEPT !.checkins = ck, !.alerts = al]
                        /\ archive' = SectionEntries(participant_data, ck, "fail")
                   ELSE /\ seen' = [seen EXCEPT !.checkins = ck, !.alerts = al]
                        /\ archive' = SectionEntries(participant_data, ck, al)
                        /\ wpc' = IF job.exportLevel >= 2 THEN "events" ELSE "upload"
                        /\ UNCHANGED <<raised, err>>
    /\ UNCHANGED <<job, participant_data, shots, screenshot_infos,
                   bucket, inflight, downloaded, retrievable, idx, uploaded,
                   download_url, EXPORT_INDEX, handlerVars, cancelVars>>
    /\ UNCHANGED cacheVars

\* Level 2+: the events query, events.json, and (level 3) the attachment
\* references of the events that carry a screenshotUrl.  The query is not
\* inside a try block of its own: strptime on the dates or the stream raising
\* leaves the outer try.
W_Events ==
    /\ wpc = "events"
    /\ job.exportLevel >= 2
    /\ \/ \E msg \in ExcMsgs :
            /\ Raise("events", msg)
            /\ seen' = [seen EXCEPT !.events = "fail"]
            /\ UNCHANGED <<archive, screenshot_infos>>
       \/ \E n \in 0..MaxEvents :
            \* the events are numbered so that those with a screenshotUrl
            \* come first (document ids are opaque)
            \E withUrl \in {1..k : k \in 0..n} :
              /\ job.exportLevel < 3 => withUrl = {}
              /\ seen' = [seen EXCEPT !.events = IF n = 0 THEN "empty" ELSE "data"]
              /\ archive' = IF n > 0 THEN archive \cup {"events.json"} ELSE archive
              /\ screenshot_infos' = IF job.exportLevel >= 3 THEN withUrl ELSE {}
              /\ wpc' = IF job.exportLevel >= 3 /\ withUrl # {}
                          THEN "total" ELSE "upload"
              /\ UNCHANGED <<raised, err>>
    /\ UNCHANGED <<job, participant_data, zipOpened, shots, bucket,
                   inflight, downloaded, retrievable, idx, uploaded,
                   download_url, EXPORT_INDEX, handlerVars, cancelVars>>
    /\ UNCHANGED cacheVars

\* job_ref.update({"screenshotTotal": total, "screenshotProgress": 0})
W_Total ==
    /\ wpc = "total"
    /\ job' = [job EXCEPT !.screenshotTotal = Cardinality(screenshot_infos),
                          !.screenshotProgress = 0]
    /\ wpc' = "submit"
    /\ UNCHANGED <<workerLocals, handlerVars, cancelVars>>
    /\ UNCHANGED cacheVars

\* ------------------------------------- download_screenshots_concurrent
\* get_storage_bucket() (None when it raises), then one future per reference.
W_Submit ==
    /\ wpc = "submit"
    /\ \E b \in {"ok", "none"} : bucket' = b
    /\ inflight' = screenshot_infos
    /\ downloaded' = <<>>
    /\ wpc' = "fetch"
    /\ UNCHANGED <<job, participant_data, seen, zipOpened, archive,
                   shots, screenshot_infos, retrievable, idx, raised, err,
                   uploaded, download_url, EXPORT_INDEX, handlerVars, cancelVars>>
    /\ UNCHANGED cacheVars

\* re.search(r'/o/([^?]+)', url) finds a path
HasStoragePath(urlKind) == urlKind \in {"fb_http", "fb_other"}
\* url.startswith("http")
IsHttp(urlKind) == urlKind \in {"fb_http", "plain_http"}

\* Mutant: no HTTP fallback after the storage routes.
DownloadSingle_NoHttpFallback(hasPath, bucketOk, urlKind, storOk, extOk, http, content) ==
    IF hasPath /\ bucketOk /\ storOk
      THEN content
      ELSE IF urlKind \in {"fb_http", "fb_other"} /\ bucketOk /\ extOk
        THEN content
        ELSE "none"

\* download_single_screenshot: the img_data it returns, "none" for None,
\* "empty" for b"" and "data" for image bytes.
\*   hasPath: ss_info carries a storagePath; bucketOk: bucket is not None;
\*   storOk / extOk: the blob read by that path succeeds;
\*   http: outcome of session.get; content: the bytes the store holds.
DownloadSingle(hasPath, bucketOk, urlKind, storOk, extOk, http, content) ==
    IF hasPath /\ bucketOk /\ storOk
      THEN content
      ELSE IF HasStoragePath(urlKind) /\ bucketOk /\ extOk
        THEN content
        ELSE IF IsHttp(urlKind) /\ http = "200"
          THEN content
          ELSE "none"

\* if img_data: results.append(...)
KeepResult(img_data) == img_data \notin {"none", "empty"}

\* Some route delivers image bytes for the reference.
RouteDelivers(hasPath, bucketOk, urlKind, storOk, extOk, http, content) ==
    /\ content = "data"
    /\ \/ hasPath /\ bucketOk /\ storOk
       \/ HasStoragePath(urlKind) /\ bucketOk /\ extOk
       \/ IsHttp(urlKind) /\ http = "200"

\* What one fetch can come to: the img_data returned, with whether some
\* route delivers the reference, over every combination of reference
\* (storagePath or not, kind of URL) and of store and origin behaviour.
FetchOutcomes(bucketOk) ==
    { <<DownloadSingle(hasPath, bucketOk, urlKind, storOk, extOk, http, content),
        RouteDelivers(hasPath, bucketOk, urlKind, storOk, extOk, http, content)>> :
        <<hasPath, urlKind, storOk, extOk, http, content>> \in
            BOOLEAN \X UrlKinds \X BOOLEAN \X BOOLEAN \X HttpOutcomes \X Contents }
FetchOutcomesWithBucket == FetchOutcomes(TRUE)
FetchOutcomesNoBucket == FetchOutcomes(FALSE)

\* One future completes (as_completed yields it) and its result is handled.
W_FetchOne ==
    /\ wpc = "fetch"
    /\ \E a \in inflight :
         \E o \in (IF bucket = "ok" THEN FetchOutcomesWithBucket
                   ELSE FetchOutcomesNoBucket) :
           LET img_data == o[1]
               delivers == o[2]
           IN /\ inflight' = inflight \ {a}
              /\ downloaded' = IF KeepResult(img_data)
                                 THEN Append(downloaded, a) ELSE downloaded
              /\ retrievable' = IF delivers THEN retrievable \cup {a}
                                ELSE retrievable
              /\ wpc' = IF inflight \ {a} = {} THEN "write" ELSE "fetch"
              \* the function returns: its local bucket goes out of scope
              /\ bucket' = IF inflight \ {a} = {} THEN "unset" ELSE bucket
    /\ idx' = 0
    /\ UNCHANGED <<job, participant_data, seen, zipOpened, archive,
                   shots, screenshot_infos, raised, err, uploaded,
                   download_url, EXPORT_INDEX, handlerVars, cancelVars>>
    /\ UNCHANGED cacheVars

\* ----------------------------------- run_background_export, continued
\* Mutant: a checkpoint after every entry.
ProgressWrite_PerEntry(i, n, total) == ((i + 1) * total) \div n

\* The progress value written after the entry at index i of n downloaded
\* entries, -1 when no write is made there:
\*   progress_pct = (i + 1) / n;  int(n * 0.25) = n \div 4, and so on.
ProgressWrite(i, n, total) ==
    IF 4 * (i + 1) >= n /\ i = n \div 4 THEN total \div 4
    ELSE IF 2 * (i + 1) >= n /\ i = n \div 2 THEN total \div 2
    ELSE IF 4 * (i + 1) >= 3 * n /\ i = (3 * n) \div 4 THEN (3 * total) \div 4
    ELSE -1

\* One iteration of the loop over downloaded: the entry is written to the
\* archive under screenshots/ and the progress checkpoint is updated.
W_WriteOne ==
    /\ wpc = "write"
    /\ idx < Len(downloaded)
    /\ \/ \E msg \in ExcMsgs :
            /\ Raise("write", msg)
            /\ UNCHANGED <<job, shots, idx>>
       \/ LET p == ProgressWrite(idx, Len(downloaded),
                                 Cardinality(screenshot_infos))
          IN /\ shots' = Append(shots, downloaded[idx + 1])
             /\ job' = IF p >= 0 THEN [job EXCEPT !.screenshotProgress = p]
                       ELSE job
             /\ idx' = idx + 1
             /\ UNCHANGED <<wpc, raised, err>>
    /\ UNCHANGED <<participant_data, seen, zipOpened, archive,
                   screenshot_infos, bucket, inflight, downloaded, retrievable,
                   uploaded, download_url, EXPORT_INDEX, handlerVars, cancelVars>>
    /\ UNCHANGED cacheVars

\* job_ref.update({"screenshotProgress": total})
W_ProgressFinal ==
    /\ wpc = "write"
    /\ idx = Len(downloaded)
    /\ job' = [job EXCEPT !.screenshotProgress = Cardinality(screenshot_infos)]
    /\ wpc' = "upload"
    /\ UNCHANGED <<workerLocals, handlerVars, cancelVars>>
    /\ UNCHANGED cacheVars

\* raise Exception(f"Storage upload failed: {upload_err}")
UploadError(msg) == "Storage upload failed: " \o msg

\* Mutant: an upload failure falls back to the local download URL.
OnUploadFailure_LocalUrl(msg) ==
    /\ download_url' = "/api/exports/local"
    /\ wpc' = "index"
    /\ UNCHANGED <<raised, err>>

\* except Exception as upload_err: raise Exception("Storage upload failed: ...")
OnUploadFailure(msg) ==
    /\ Raise("upload", UploadError(msg))
    /\ UNCHANGED download_url

\* get_storage_bucket, blob.upload_from_filename
W_Upload ==
    /\ wpc = "upload"
    /\ \/ \E msg \in ExcMsgs :
            /\ seen' = [seen EXCEPT !.storage = "upload_failed"]
            /\ OnUploadFailure(msg)
            /\ UNCHANGED uploaded
       \/ /\ uploaded' = TRUE
          /\ wpc' = "sign"
          /\ UNCHANGED <<raised, err, seen, download_url>>
    /\ UNCHANGED <<job, participant_data, zipOpened, archive,
                   shots, screenshot_infos, bucket, inflight, downloaded,
                   retrievable, idx, EXPORT_INDEX, handlerVars, cancelVars>>
    /\ UNCHANGED cacheVars

\* get_signing_credentials, blob.generate_signed_url
W_Sign ==
    /\ wpc = "sign"
    /\ \/ \E msg \in ExcMsgs :
            /\ seen' = [seen EXCEPT !.storage = "sign_failed"]
            /\ OnUploadFailure(msg)
       \/ /\ download_url' = "https://signed"
          /\ wpc' = "index"
          /\ UNCHANGED <<raised, err, seen>>
    /\ UNCHANGED <<job, participant_data, zipOpened, archive,
                   shots, screenshot_infos, bucket, inflight, downloaded,
                   retrievable, idx, uploaded, EXPORT_INDEX, handlerVars,
                   cancelVars>>
    /\ UNCHANGED cacheVars

\* EXPORT_INDEX[export_id] = {...}
W_Index ==
    /\ wpc = "index"
    /\ EXPORT_INDEX' = TRUE
    /\ wpc' = "complete"
    /\ UNCHANGED <<job, participant_data, seen, zipOpened, archive,
                   shots, screenshot_infos, bucket, inflight, downloaded,
                   retrievable, idx, raised, err, uploaded, download_url,
                   handlerVars, cancelVars>>
    /\ UNCHANGED cacheVars

\* job_ref.update({"status": "completed", "downloadUrl": ..., "filename": ...})
W_Complete ==
    /\ wpc = "complete"
    /\ WriteStatus([job EXCEPT
           !.status = "completed",
           !.downloadUrl = download_url,
           !.filename = ExportFilename(job.exportLevel, job.startDate, job.endDate),
           !.completedAt = TRUE])
    /\ wpc' = "returned_completed"
    /\ UNCHANGED <<workerLocals, handlerVars, cancelVars>>
    /\ UNCHANGED cacheVars

\* Mutant: the handler logs the exception and does not write the record.
W_Fail_LogOnly ==
    /\ wpc = "fail"
    /\ wpc' = "returned_failed"
    /\ UNCHANGED <<job, workerLocals, handlerVars, cancelVars>>
    /\ UNCHANGED cacheVars

\* except Exception as e: job_ref.update({"status": "failed", "error": str(e)})
W_Fail ==
    /\ wpc = "fail"
    /\ WriteStatus([job EXCEPT !.status = "failed", !.error = err,
                               !.completedAt = TRUE])
    /\ wpc' = "returned_failed"
    /\ UNCHANGED <<workerLocals, handlerVars, cancelVars>>
    /\ UNCHANGED cacheVars

Worker ==
    \/ W_Start \/ W_Lookup \/ W_NotFound \/ W_Sections \/ W_Events
    \/ W_Total \/ W_Submit \/ W_FetchOne \/ W_WriteOne \/ W_ProgressFinal
    \/ W_Upload \/ W_Sign \/ W_Index \/ W_Complete \/ W_Fail

\* --------------------------------------------------- cancel_export_job
\* if job_data.get("status") not in ["pending", "processing"]
Cancellable(status) == status \in {"pending", "processing"}

\* job_doc = job_ref.get() and the check made on its status.  A request
\* names this job, whose uuid4 id is known to a client only once the record
\* is set (the 404 answer for an unknown id touches no record).  Requests
\* are numbered in the order in which they arrive.
C_Check(c) ==
    /\ cpc[c] = "idle"
    /\ \A d \in Cancels : d < c => cpc[d] # "idle"
    /\ job.exists
    /\ IF ~Cancellable(job.status)
         THEN /\ cpc' = [cpc EXCEPT ![c] = "done"]
              /\ cancelResp' = [cancelResp EXCEPT ![c] = "400"]
         ELSE /\ cpc' = [cpc EXCEPT ![c] = "checked"]
              /\ UNCHANGED cancelResp
    /\ UNCHANGED <<job, wpc, workerLocals, handlerVars>>
    /\ UNCHANGED cacheVars

\* job_ref.update({"status": "cancelled", "cancelledAt": ..., ...})
C_Write(c) ==
    /\ cpc[c] = "checked"
    /\ WriteStatus([job EXCEPT !.status = "cancelled", !.cancelledAt = TRUE])
    /\ cpc' = [cpc EXCEPT ![c] = "done"]
    /\ cancelResp' = [cancelResp EXCEPT ![c] = "ok"]
    /\ UNCHANGED <<wpc, workerLocals, handlerVars>>
    /\ UNCHANGED cacheVars

CancelCheck == \E c \in Cancels : C_Check(c)
CancelWrite == \E c \in Cancels : C_Write(c)

Next ==
    \/ CreateJob \/ StartThread
    \/ W_Start \/ W_Lookup \/ W_NotFound \/ W_Sections \/ W_Events
    \/ W_Total \/ W_Submit \/ W_FetchOne \/ W_WriteOne \/ W_ProgressFinal
    \/ W_Upload \/ W_Sign \/ W_Index \/ W_Complete \/ W_Fail
    \/ CancelCheck \/ CancelWrite

Spec == Init /\ [][Next]_vars

\* The worker thread and the request thread are scheduled fairly: a thread
\* that can take its next step eventually takes it.
FairSpec == Spec /\ WF_vars(Worker) /\ WF_vars(StartThread)

\* ===================================================================
\* Properties
\* ===================================================================
Terminal == {"completed", "failed", "cancelled"}
Finished == {"completed", "failed"}

\* No cancel request has written to the record.
NoCancelWrite == \A c \in Cancels : cancelResp[c] # "ok"

\* A step in which cancel request c moves.
CancelStep(c) == cpc'[c] # cpc[c]

\* An exception of a step other than a sub-collection query or a fetch
\* reached the worker's handler.
StepFault == raised \in {"lookup", "zip", "write", "upload", "sign"}

ShotSet == {shots[i] : i \in 1..Len(shots)}
NoDuplicateShots ==
    \A i, j \in 1..Len(shots) : shots[i] = shots[j] => i = j

AllowedTransitions ==
    {<<"pending", "processing">>, <<"processing", "completed">>,
     <<"processing", "failed">>, <<"pending", "cancelled">>,
     <<"processing", "cancelled">>}

\* C1: every change of the record's status is one of pending->processing,
\* processing->completed, processing->failed, pending->cancelled,
\* processing->cancelled; in particular a status of completed, failed or
\* cancelled is never overwritten with a different one.
C1_StatusTransitions ==
    [][(job.exists /\ job'.status # job.status)
         => <<job.status, job'.status>> \in AllowedTransitions]_vars

\* C2: a step of a cancel request taken while the record is completed or
\* failed leaves the record as the worker wrote it and rejects the request
\* (400); a cancel request that finds the job pending or processing ends
\* with the status set to cancelled.
C2_CancelRejectedOnceFinished ==
    [][\A c \in Cancels :
         CancelStep(c) =>
           /\ job.status \in Finished =>
                (job' = job /\ cancelResp'[c] = "400")
           /\ cancelResp'[c] = "ok" => job'.status = "cancelled"]_vars

\* C3: downloadUrl is present only in a record whose status is completed,
\* and a completed record carries both downloadUrl and filename.
C3_DownloadUrlOnlyWhenCompleted ==
    /\ job.downloadUrl # Absent => job.status = "completed"
    /\ job.status = "completed" =>
         (job.downloadUrl # Absent /\ job.filename # Absent)

\* C4: once the upload or the signing of the URL has failed, the record is
\* never completed and never carries a downloadUrl, the worker goes to its
\* failure handler, and when it has returned the record holds a non-empty
\* error and the status failed (cancelled if a cancel request wrote last).
C4_UploadFailureFailsJob ==
    seen.storage \in {"upload_failed", "sign_failed"} =>
        /\ job.status # "completed"
        /\ job.downloadUrl = Absent
        /\ wpc \in {"fail", "returned_failed"}
        /\ wpc = "returned_failed" =>
             /\ job.error \notin {Absent, ""}
             /\ job.status \in {"failed", "cancelled"}
             /\ NoCancelWrite => job.status = "failed"

C4_Witness ==
    /\ wpc = "returned_failed"
    /\ seen.storage = "sign_failed"
    /\ uploaded
    /\ job.status = "failed"
    /\ job.error = UploadError("boom")

\* C5: under fair scheduling every created job's worker returns, and from
\* then on the status is completed, failed or cancelled: no job stays
\* pending or processing for ever, whichever step raised.
C5_JobTerminates ==
    /\ job.exists ~> WorkerReturned
    /\ [](WorkerReturned => job.status \in Terminal)

C5_Witness ==
    /\ wpc = "returned_failed"
    /\ raised = "events"
    /\ job.status = "failed"
    /\ job.error = err

\* C6: the pending record is written before the worker starts, so the
\* worker's first write finds an existing record whose status is pending;
\* the create request that made a job returns status pending.
C6_FirstWriteFindsPending ==
    /\ [][(wpc = "start" /\ wpc' = "lookup")
            => (job.exists /\ job.status = "pending")]_vars
    /\ [](wpc # "unstarted" => job.exists)
    /\ []((hpc = "returned" /\ job.exists) => createResp = "pending")
    /\ [](createResp = "pending" => job.exists)

OneSubqueryFailed(q) ==
    /\ seen[q] = "fail"
    /\ \A r \in {"checkins", "alerts", "events"} \ {q} : seen[r] # "fail"

\* The sections other than q are in the archive exactly when their query
\* returned records (the metadata when a record was found).
OtherSectionsKept(q) ==
    /\ "participant_metadata.json" \in archive <=> participant_data
    /\ q # "checkins" => ("ema_responses.json" \in archive <=> seen.checkins = "data")
    /\ q # "alerts" => ("safety_alerts.json" \in archive <=> seen.alerts = "data")
    /\ q # "events" => ("events.json" \in archive <=> seen.events = "data")

SectionFile(q) ==
    CASE q = "checkins" -> "ema_responses.json"
      [] q = "alerts" -> "safety_alerts.json"
      [] OTHER -> "events.json"

DegradesToEmpty(q) ==
    (WorkerReturned /\ OneSubqueryFailed(q) /\ ~StepFault /\ NoCancelWrite) =>
        /\ job.status = "completed"
        /\ job.error = Absent
        /\ SectionFile(q) \notin archive
        /\ OtherSectionsKept(q)

C8_FailedFetchesOmitted ==
    (/\ WorkerReturned
     /\ job.exportLevel >= 3
     /\ screenshot_infos # {}
     /\ raised \notin {"lookup", "zip", "events", "write", "upload", "sign"}
     /\ NoCancelWrite) =>
        /\ job.status = "completed"
        /\ Len(shots) = Cardinality(screenshot_infos)
                          - Cardinality(screenshot_infos \ retrievable)
        /\ ShotSet = retrievable
        /\ NoDuplicateShots

C8_Witness ==
    /\ wpc = "returned_completed"
    /\ job.exportLevel = 3
    /\ Cardinality(screenshot_infos) = 2
    /\ Cardinality(retrievable) = 1
    /\ Len(shots) = 1
    /\ job.status = "completed"

\* C9: when the worker finds neither a metadata record nor an event, it
\* builds and uploads nothing, the status is processing until its write and
\* failed after it, with the error 'Participant not found'.
C9_ParticipantNotFound ==
    seen.participant = "nothing" =>
        /\ wpc \in {"notfound", "returned_notfound"}
        /\ ~zipOpened /\ archive = {} /\ shots = <<>> /\ ~uploaded
        /\ job.downloadUrl = Absent
        /\ (wpc = "notfound" /\ NoCancelWrite) =>
              (job.status = "processing" /\ job.error = Absent)
        /\ wpc = "returned_notfound" =>
              /\ job.error = "Participant not found"
              /\ job.completedAt
              /\ NoCancelWrite => job.status = "failed"

C9_Witness ==
    /\ wpc = "returned_notfound"
    /\ seen.participant = "nothing"
    /\ job.status = "failed"
    /\ job.startedAt
    /\ NoCancelWrite

\* C10: a completed job's archive holds events.json only at level >= 2 and
\* entries under screenshots/ only at level 3; a level-1 job for a
\* participant with metadata and no check-ins or alerts holds exactly
\* participant_metadata.json.
C10_ArchiveMatchesLevel ==
    wpc = "returned_completed" =>
        /\ "events.json" \in archive => job.exportLevel >= 2
        /\ shots # <<>> => job.exportLevel = 3
        /\ (/\ job.exportLevel = 1
            /\ participant_data
            /\ seen.checkins = "empty"
            /\ seen.alerts = "empty") =>
               (archive = {"participant_metadata.json"} /\ shots = <<>>)

\* ======================================================================
\* Safety-alert cache: SAFETY_ALERT_CACHE, the background loop
\* refresh_safety_alert_cache, the manual refresh
\* force_refresh_safety_alerts and the read get_safety_alerts.
\*
\* All three run as coroutines of one event loop, so a coroutine is only
\* interleaved with the others where it awaits.  The live fetch runs in an
\* executor thread and is awaited; "async with _safety_alert_lock" does not
\* suspend when the lock is free, and no holder of the lock awaits inside
\* it, so the lock is free whenever a coroutine reaches it: a swap, a
\* failure update and a read's copy are each one step.
\* ======================================================================

\* ------------------------------------------------------------------ bounds
\* Live fetches started in one run (ticks and manual refreshes together).
MaxFetches == 3
\* Number of alerts a live fetch returns.
MaxAlerts == 1

\* What fetch_live_safety_alerts returns for its f-th call when the store
\* holds n alerts: a fresh list, each entry carrying the call it came from.
FetchResult(f, n) == [i \in 1..n |-> [alertId |-> i, fetch |-> f]]

notAlertVars == <<exportVars, statusVars, entryVars, callVars>>

\* SAFETY_ALERT_CACHE.update({"alerts": alerts, "updated_at": utcnow,
\*                            "status": "ok", "error": None})
SwapCache_Extend(cache, alerts, now) ==
    [alerts |-> cache.alerts \o alerts, updated_at |-> now, status |-> "ok",
     error |-> NoneMsg]

SwapCache_KeepsError(cache, alerts, now) ==
    [cache EXCEPT !.alerts = alerts, !.updated_at = now, !.status = "ok"]

SwapCache(cache, alerts, now) ==
    [cache EXCEPT !.alerts = alerts, !.updated_at = now, !.status = "ok",
                  !.error = NoneMsg]

\* SAFETY_ALERT_CACHE.update({"status": "error", "error": str(exc)})
OnTickFailure_Clears(cache, msg) ==
    [alerts |-> <<>>, updated_at |-> NoneTime, status |-> "error",
     error |-> msg]

OnTickFailure(cache, msg) ==
    [cache EXCEPT !.status = "error", !.error = msg]

\* The swap under the lock by a call, with the record of what it stored.
\* Fetches are numbered in the order they start.
Swap(call) ==
    /\ SAFETY_ALERT_CACHE' = SwapCache(SAFETY_ALERT_CACHE, call.alerts, utcnow)
    /\ lastSwap' = [alerts |-> call.alerts, updated_at |-> utcnow,
                    fetch |-> call.fetch]
    /\ swapLog' = swapLog \cup {<<call.alerts, utcnow>>}
    /\ utcnow' = utcnow + 1

\* loop.run_in_executor(None, fetch_live_safety_alerts): call f starts.
FetchingCall(f) ==
    [pc |-> "fetching", fetch |-> f, alerts |-> <<>>, exc |-> NoneMsg]

\* Whether a call suspended at pc is inside "async with _safety_alert_lock".
\* The locked blocks hold only the update or the copy and no await, so a
\* call is never suspended inside one; the fetch is awaited before the lock
\* is taken.
LockedWhile_Fetching(pc) == pc = "fetching"

LockedWhile(pc) == FALSE

\* _safety_alert_lock can be acquired.
LockFree == ~LockedWhile(tick.call.pc) /\ ~LockedWhile(manual.call.pc)

\* A live fetch is running in the executor.
FetchInFlight == tick.call.pc = "fetching" \/ manual.call.pc = "fetching"

\* ------------------------------------------ refresh_safety_alert_cache
\* while not _safety_alert_stop_event.is_set():
WhileNotStopped_Always(stopped) == TRUE

WhileNotStopped(stopped) == ~stopped

\* The loop's head: out of the loop, or run_in_executor(...) for a tick.
T_Begin ==
    /\ tick.call.pc = "loop"
    /\ IF ~WhileNotStopped(stop_event)
         THEN /\ tick' = [tick EXCEPT !.call.pc = "stopped"]
              /\ UNCHANGED fetches
         ELSE /\ fetches < MaxFetches
              /\ fetches' = fetches + 1
              /\ tick' = [tick EXCEPT !.call = FetchingCall(fetches + 1)]
    /\ UNCHANGED <<SAFETY_ALERT_CACHE, stop_event, manual, reader, utcnow,
                   lastSwap, swapLog, notAlertVars>>

\* The executor thread returns the list it built.
T_FetchReturns ==
    /\ tick.call.pc = "fetching"
    /\ \E n \in 0..MaxAlerts :
         tick' = [tick EXCEPT !.call.pc = "swap",
                              !.call.alerts = FetchResult(tick.call.fetch, n)]
    /\ UNCHANGED <<SAFETY_ALERT_CACHE, stop_event, manual, reader, fetches,
                   utcnow, lastSwap, swapLog, notAlertVars>>

\* The executor thread raises (get_all_participant_ids is outside the
\* per-participant try of fetch_live_safety_alerts).
T_FetchRaises ==
    /\ tick.call.pc = "fetching"
    /\ \E msg \in ExcMsgs :
         tick' = [tick EXCEPT !.call.pc = "except", !.call.exc = msg]
    /\ UNCHANGED <<SAFETY_ALERT_CACHE, stop_event, manual, reader, fetches,
                   utcnow, lastSwap, swapLog, notAlertVars>>

\* async with _safety_alert_lock: SAFETY_ALERT_CACHE.update({... "ok" ...})
T_Swap ==
    /\ tick.call.pc = "swap"
    /\ ~LockedWhile(manual.call.pc)
    /\ Swap(tick.call)
    /\ tick' = [tick EXCEPT !.call.pc = "waiting",
                            !.completed = tick.completed + 1]
    /\ UNCHANGED <<stop_event, manual, reader, fetches, notAlertVars>>

\* except Exception as exc: ... SAFETY_ALERT_CACHE.update({"status": "error"...
T_Except ==
    /\ tick.call.pc = "except"
    /\ ~LockedWhile(manual.call.pc)
    /\ SAFETY_ALERT_CACHE' = OnTickFailure(SAFETY_ALERT_CACHE, tick.call.exc)
    /\ tick' = [tick EXCEPT !.call.pc = "waiting",
                            !.completed = tick.completed + 1]
    /\ UNCHANGED <<stop_event, manual, reader, fetches, utcnow, lastSwap,
                   swapLog, notAlertVars>>

\* asyncio.wait_for(_safety_alert_stop_event.wait(), timeout=120):
\* the event is set (break) or the timeout passes (continue).
AfterWait_Breaks(stopped) == "stopped"

AfterWait(stopped) == IF stopped THEN "stopped" ELSE "loop"

T_Wait ==
    /\ tick.call.pc = "waiting"
    /\ tick' = [tick EXCEPT !.call.pc = AfterWait(stop_event)]
    /\ UNCHANGED <<SAFETY_ALERT_CACHE, stop_event, manual, reader, fetches,
                   utcnow, lastSwap, swapLog, notAlertVars>>

\* stop_safety_alert_refresh: _safety_alert_stop_event.set()
Shutdown ==
    /\ ~stop_event
    /\ stop_event' = TRUE
    /\ UNCHANGED <<SAFETY_ALERT_CACHE, tick, manual, reader, fetches, utcnow,
                   lastSwap, swapLog, notAlertVars>>

\* stop_safety_alert_refresh: asyncio.wait_for(_safety_alert_task, 5.0)
\* times out; wait_for then cancels the task, and the CancelledError is
\* raised where the loop awaits (it is not an Exception, so the loop's
\* except clause does not catch it).
ShutdownTimeout ==
    /\ stop_event
    /\ tick.call.pc \in {"fetching", "swap", "except", "waiting"}
    /\ tick' = [tick EXCEPT !.call.pc = "cancelled"]
    /\ UNCHANGED <<SAFETY_ALERT_CACHE, stop_event, manual, reader, fetches,
                   utcnow, lastSwap, swapLog, notAlertVars>>

\* ----------------------------------------- force_refresh_safety_alerts
M_Begin ==
    /\ manual.call.pc = "idle"
    /\ fetches < MaxFetches
    /\ fetches' = fetches + 1
    /\ manual' = [manual EXCEPT !.call = FetchingCall(fetches + 1)]
    /\ UNCHANGED <<SAFETY_ALERT_CACHE, stop_event, tick, reader, utcnow,
                   lastSwap, swapLog, notAlertVars>>

M_FetchReturns ==
    /\ manual.call.pc = "fetching"
    /\ \E n \in 0..MaxAlerts :
         manual' = [manual EXCEPT
                      !.call.pc = "swap",
                      !.call.alerts = FetchResult(manual.call.fetch, n)]
    /\ UNCHANGED <<SAFETY_ALERT_CACHE, stop_event, tick, reader, fetches,
                   utcnow, lastSwap, swapLog, notAlertVars>>

\* except Exception as e: the handler logs and raises; the cache is not
\* touched.
OnManualFailure_MarksError(cache, msg) ==
    [cache EXCEPT !.status = "error", !.error = msg]

OnManualFailure(cache, msg) == cache

\* except Exception as e: raise HTTPException(status_code=500, ...)
M_FetchRaises ==
    /\ manual.call.pc = "fetching"
    /\ \E msg \in ExcMsgs :
         /\ manual' = [call |-> [IdleCall EXCEPT !.exc = msg],
                       resp |-> [code |-> 500, count |-> 0,
                                 refreshedAt |-> NoneTime]]
         /\ SAFETY_ALERT_CACHE' = OnManualFailure(SAFETY_ALERT_CACHE, msg)
    /\ UNCHANGED <<stop_event, tick, reader, fetches, utcnow, lastSwap,
                   swapLog, notAlertVars>>

\* return {"status": "ok", "count": len(alerts),
\*         "refreshedAt": SAFETY_ALERT_CACHE["updated_at"]}
ManualResponse_CountsNothing(alerts, cache) ==
    [code |-> 200, count |-> 0, refreshedAt |-> cache.updated_at]

ManualResponse(alerts, cache) ==
    [code |-> 200, count |-> Len(alerts), refreshedAt |-> cache.updated_at]

\* The swap under the lock, then the response.
M_Swap ==
    /\ manual.call.pc = "swap"
    /\ ~LockedWhile(tick.call.pc)
    /\ Swap(manual.call)
    /\ manual' = [call |-> IdleCall,
                  resp |-> ManualResponse(manual.call.alerts,
                                          SAFETY_ALERT_CACHE')]
    /\ UNCHANGED <<stop_event, tick, reader, fetches, notAlertVars>>

\* ---------------------------------------------------- get_safety_alerts
\* payload = SAFETY_ALERT_CACHE.copy(), then the 503 or the response.
GetSafetyAlerts_NoNotReady(payload) ==
    [code |-> 200, alerts |-> payload.alerts,
     refreshedAt |-> payload.updated_at, status |-> payload.status,
     error |-> payload.error]

GetSafetyAlerts_NotReadyUnlessOk(payload) ==
    IF payload.status # "ok"
      THEN [NoResponse EXCEPT !.code = 503]
      ELSE [code |-> 200, alerts |-> payload.alerts,
            refreshedAt |-> payload.updated_at, status |-> payload.status,
            error |-> payload.error]

GetSafetyAlerts(payload) ==
    IF payload.status = "never_run"
      THEN [NoResponse EXCEPT !.code = 503]
      ELSE [code |-> 200, alerts |-> payload.alerts,
            refreshedAt |-> payload.updated_at, status |-> payload.status,
            error |-> payload.error]

G_Read ==
    /\ LockFree
    /\ reader' = [resp |-> GetSafetyAlerts(SAFETY_ALERT_CACHE),
                  ticks |-> tick.completed, swaps |-> utcnow - 1,
                  during |-> FetchInFlight]
    /\ UNCHANGED <<SAFETY_ALERT_CACHE, stop_event, tick, manual, fetches,
                   utcnow, lastSwap, swapLog, notAlertVars>>

AlertNext ==
    \/ T_Begin
    \/ T_FetchReturns
    \/ T_FetchRaises
    \/ T_Swap
    \/ T_Except
    \/ T_Wait
    \/ Shutdown
    \/ ShutdownTimeout
    \/ M_Begin
    \/ M_FetchReturns
    \/ M_FetchRaises
    \/ M_Swap
    \/ G_Read

AlertSpec == Init /\ [][AlertNext]_vars

\* ---------------------------------------- safety-alert cache: properties
\* The step in which the background loop handles a failed fetch.
TickFailureStep == tick.call.pc = "except" /\ tick'.call.pc = "waiting"

\* C11: when a tick's live fetch raises, the cache's status becomes error
\* and error holds the exception message, while alerts and updated_at keep
\* exactly what the last successful swap stored (the list is not cleared).
C11_TickFailureKeepsAlerts ==
    [][TickFailureStep =>
         /\ SAFETY_ALERT_CACHE'.status = "error"
         /\ SAFETY_ALERT_CACHE'.error = tick.call.exc
         /\ SAFETY_ALERT_CACHE'.alerts = lastSwap.alerts
         /\ SAFETY_ALERT_CACHE'.updated_at = lastSwap.updated_at]_vars

\* A tick has failed after a swap that stored a non-empty list.
C11_Witness ==
    /\ tick.call.pc = "waiting"
    /\ tick.call.exc # NoneMsg
    /\ SAFETY_ALERT_CACHE.status = "error"
    /\ SAFETY_ALERT_CACHE.alerts # <<>>
    /\ lastSwap.alerts = SAFETY_ALERT_CACHE.alerts

ReadMade == reader.resp.code # 0

\* C12 (as stated): a read made before any tick has completed signals
\* "not ready"; a read made after the first tick has completed returns a
\* snapshot with status ok and a non-null updated_at.
C12_ReadyExactlyAfterFirstTick ==
    ReadMade =>
      /\ reader.ticks = 0 => reader.resp.code = 503
      /\ reader.ticks >= 1 => /\ reader.resp.code = 200
                              /\ reader.resp.status = "ok"
                              /\ reader.resp.refreshedAt # NoneTime

\* C12 (amended): a read signals "not ready" exactly when no tick has
\* completed, with or without success, and no manual refresh has swapped;
\* a read made after a swap (by a tick or by a manual refresh) returns a
\* snapshot with a non-null updated_at, with status ok or, after a failed
\* tick, error; a read that returns status ok has a non-null updated_at
\* and no error.
C12_NotReadyUntilFirstUpdate ==
    ReadMade =>
      /\ reader.resp.code = 503 <=> (reader.ticks = 0 /\ reader.swaps = 0)
      /\ reader.swaps >= 1 => /\ reader.resp.code = 200
                              /\ reader.resp.status \in {"ok", "error"}
                              /\ reader.resp.refreshedAt # NoneTime
      /\ reader.resp.status = "ok" => /\ reader.resp.refreshedAt # NoneTime
                                      /\ reader.resp.error = NoneMsg

\* A read after the first tick has completed returned that tick's list.
C12_Witness ==
    /\ reader.resp.code = 200
    /\ reader.resp.status = "ok"
    /\ reader.ticks = 1
    /\ reader.swaps = 1
    /\ reader.resp.alerts # <<>>

\* C13: under every interleaving of reads, ticks and manual refreshes,
\* the alerts a read returns are the complete result of one live fetch
\* (or the initial empty list), with the updated_at written in the same
\* swap; never a mixture of two fetches' entries.
C13_ReadIsOneFetch ==
    reader.resp.code = 200 =>
      /\ \/ <<reader.resp.alerts, reader.resp.refreshedAt>> \in swapLog
         \/ /\ reader.resp.alerts = <<>>
            /\ reader.resp.refreshedAt = NoneTime
      /\ \A i, j \in 1..Len(reader.resp.alerts) :
           reader.resp.alerts[i].fetch = reader.resp.alerts[j].fetch

\* A read returned one refresh's list while the background loop holds
\* another fetch's result that it has not swapped in yet.
C13_Witness ==
    /\ reader.resp.code = 200
    /\ reader.resp.alerts # <<>>
    /\ tick.call.pc = "swap"
    /\ tick.call.alerts # <<>>
    /\ tick.call.alerts # reader.resp.alerts
    /\ SAFETY_ALERT_CACHE.alerts = reader.resp.alerts

\* ======================================================================
\* Overall-status cache: the snapshot document dashboard_cache/
\* overall_status, the refresh (refresh_dashboard_cache and
\* scheduler_refresh_cache, which share one body), the aggregation
\* compute_participant_stats and the read get_overall_status.
\*
\* Time is counted in half days: instant t is midnight (t even) or noon
\* (t odd) of day t \div 2 of January 2025.  A naive datetime is the number
\* its fields spell; the document store reads a naive datetime as UTC.
\* ======================================================================

\* ------------------------------------------------------------------ bounds
\* timedelta(days=14), scaled: days the refresh window reaches back.
WindowDays == 1
\* Largest count of check-ins on one date of a drawn daily_status.
MaxPerDay == 5

Max(a, b) == IF a >= b THEN a ELSE b
Min(a, b) == IF a <= b THEN a ELSE b

\* ----------------------------------------------------------- date strings
\* A date string is the sequence of the character codes that follow
\* "2025-" ("-" is 45, "0" is 48).
\* strftime("%Y-%m-%d") of a day of January: "2025-01-dd".
Strftime(day) == <<48, 49, 45, 48 + (day \div 10), 48 + (day % 10)>>

\* The same date without zero padding, "2025-1-d", which
\* datetime.strptime(s, "%Y-%m-%d") parses as well.
Unpadded(day) ==
    <<49, 45>> \o (IF day >= 10 THEN <<48 + (day \div 10), 48 + (day % 10)>>
                                ELSE <<48 + day>>)

\* datetime.strptime(s, "%Y-%m-%d"): midnight of the day the string names.
Strptime(s) ==
    LET dash == CHOOSE i \in 1..Len(s) : s[i] = 45
        digs == SubSeq(s, dash + 1, Len(s))
        day  == IF Len(digs) = 1 THEN digs[1] - 48
                ELSE (digs[1] - 48) * 10 + (digs[2] - 48)
    IN  2 * day

\* Python's <= on str: code point by code point, a prefix is smaller.
RECURSIVE StrLE(_, _)
StrLE(a, b) ==
    IF a = <<>> THEN TRUE
    ELSE IF b = <<>> THEN FALSE
    ELSE IF Head(a) < Head(b) THEN TRUE
    ELSE IF Head(a) > Head(b) THEN FALSE
    ELSE StrLE(Tail(a), Tail(b))

DateOf(t) == t \div 2

\* ------------------------------------------------------- cache entries
\* The defaultdict value of compute_participant_stats, and the default of
\* daily_status.get(date_str, {...}).
ZeroDay ==
    [screenshots |-> 0, ocr_chars |-> 0, checkins |-> 0, safety_alerts |-> 0,
     reddit |-> 0, twitter |-> 0, crisis_indicated |-> FALSE]

\* sum(d[field] for d in daily_status.values())
RECURSIVE SumValues(_, _)
SumValues(daily_status, field) ==
    IF DOMAIN daily_status = {} THEN 0
    ELSE LET k == CHOOSE x \in DOMAIN daily_status : TRUE
             rest == [x \in DOMAIN daily_status \ {k} |-> daily_status[x]]
         IN  daily_status[k][field] + SumValues(rest, field)

\* sum(d.get(field, 0) for d in filtered_daily)
RECURSIVE SumList(_, _)
SumList(daily, field) ==
    IF daily = <<>> THEN 0
    ELSE Head(daily)[field] + SumList(Tail(daily), field)

\* min(100, int((total_checkins / (days_count * EMA_PROMPTS_PER_DAY)) * 100))
\* if days_count > 0 else 0.  The float product truncates to the integer
\* quotient below for every total and day count whose quotient is under 100.
EMA_PROMPTS_PER_DAY == 3

OverallCompliance_Unclamped(total_checkins, days_count) ==
    IF days_count > 0
      THEN (total_checkins * 100) \div (days_count * EMA_PROMPTS_PER_DAY)
      ELSE 0

OverallCompliance(total_checkins, days_count) ==
    IF days_count > 0
      THEN Min(100, (total_checkins * 100)
                       \div (days_count * EMA_PROMPTS_PER_DAY))
      ELSE 0

\* daily_list: one entry per day from start_dt while current <= end_dt.
DailyList(daily_status, start_dt, end_dt) ==
    [k \in 1..(IF end_dt >= start_dt THEN (end_dt - start_dt) \div 2 + 1
                                     ELSE 0) |->
       LET day == DateOf(start_dt + 2 * (k - 1))
       IN  [date |-> Strftime(day)] @@
           (IF day \in DOMAIN daily_status THEN daily_status[day]
                                           ELSE ZeroDay)]

\* The entry the refresh and the live read build from one participant's
\* daily_status (cached_data.append({...}) / results.append({...})).
BuildEntry(pid, study_start, daily_status, start_dt, end_dt) ==
    LET total_checkins == SumValues(daily_status, "checkins")
        days_count == Max(1, Cardinality(DOMAIN daily_status))
    IN  [id |-> pid,
         study_start_date |-> Strftime(DateOf(study_start)),
         dailyStatus |-> DailyList(daily_status, start_dt, end_dt),
         weeklyScreenshots |-> SumValues(daily_status, "screenshots"),
         weeklyCheckins |-> total_checkins,
         weeklyReddit |-> SumValues(daily_status, "reddit"),
         weeklyTwitter |-> SumValues(daily_status, "twitter"),
         overallCompliance |-> OverallCompliance(total_checkins, days_count)]

\* filtered_daily = [d for d in daily_status
\*                   if start_date <= d.get("date", "") <= end_date]
InRange(d, start_date, end_date) ==
    StrLE(start_date, d.date) /\ StrLE(d.date, end_date)

FilterDaily(daily, start_date, end_date) ==
    SelectSeq(daily, LAMBDA d : InRange(d, start_date, end_date))

\* The entry a cached read returns for one snapshot entry p.
FilterEntry(p, start_date, end_date) ==
    LET filtered_daily == FilterDaily(p.dailyStatus, start_date, end_date)
        total_checkins == SumList(filtered_daily, "checkins")
        days_count == Max(1, Len(filtered_daily))
    IN  [id |-> p.id,
         study_start_date |-> p.study_start_date,
         dailyStatus |-> filtered_daily,
         weeklyScreenshots |-> SumList(filtered_daily, "screenshots"),
         weeklyCheckins |-> total_checkins,
         weeklyReddit |-> SumList(filtered_daily, "reddit"),
         weeklyTwitter |-> SumList(filtered_daily, "twitter"),
         overallCompliance |-> OverallCompliance(total_checkins, days_count)]

\* ------------------------------------------- one entry, built and read
\* The arithmetic of an entry over drawn aggregates: a daily_status that
\* compute_participant_stats can return for the refresh window is drawn,
\* the refresh builds the snapshot entry from it, and a cached read with a
\* drawn date range returns its filtered view.

\* The window of the drawn run: midnight of day 1 to midnight of the last day.
EntryStart == 2
EntryEnd == 2 * (1 + WindowDays)
WindowDates == DateOf(EntryStart)..DateOf(EntryEnd)

\* The aggregates of one date: its check-ins, with or without two
\* screenshots (one from reddit, one from x).
DayShapes ==
    {[ZeroDay EXCEPT !.checkins = c, !.screenshots = 2 * sc,
                     !.ocr_chars = 10 * sc, !.reddit = sc, !.twitter = sc]
       : c \in 0..MaxPerDay, sc \in 0..1}

DrawnDaily == UNION {[D -> DayShapes] : D \in SUBSET WindowDates}

\* start_date and end_date as a client may send them: padded or not.
QueryDates == {Strftime(d) : d \in WindowDates}
              \cup {Unpadded(d) : d \in WindowDates}

notEntryVars == <<exportVars, alertVars, statusVars, callVars>>

EntryInit ==
    /\ ExportAtStartup
    /\ AlertCacheAtStartup
    /\ StatusCacheAtStartup
    /\ store = {}
    /\ tz_offset = 0
    /\ clock = 0
    /\ CallsAtStartup
    /\ \E ds \in DrawnDaily :
         entryCalc = [IdleEntryCalc EXCEPT !.pc = "drawn", !.daily_status = ds]

\* refresh: cached_data.append({... "overallCompliance": ...})
E_Build ==
    /\ entryCalc.pc = "drawn"
    /\ entryCalc' = [entryCalc EXCEPT
                       !.pc = "built",
                       !.entry = BuildEntry(1, EntryStart,
                                            entryCalc.daily_status,
                                            EntryStart, EntryEnd)]
    /\ UNCHANGED notEntryVars

\* cached read: results.append({... "overallCompliance": ...})
E_Read ==
    /\ entryCalc.pc = "built"
    /\ \E sd \in QueryDates, ed \in QueryDates :
         entryCalc' = [entryCalc EXCEPT
                         !.pc = "read", !.start_date = sd, !.end_date = ed,
                         !.result = FilterEntry(entryCalc.entry, sd, ed)]
    /\ UNCHANGED notEntryVars

EntryNext ==
    \/ E_Build
    \/ E_Read

EntrySpec == EntryInit /\ [][EntryNext]_vars

\* ------------------------------------------------- entries: properties
\* The day a date string names.
DayNamed(s) == DateOf(Strptime(s))

\* The snapshot's daily entries whose date lies in the closed range.
EntriesInRange(daily, start_date, end_date) ==
    SelectSeq(daily, LAMBDA d : /\ DayNamed(start_date) <= DayNamed(d.date)
                                /\ DayNamed(d.date) <= DayNamed(end_date))

\* C16: on a cached read with range [start_date, end_date], the returned
\* dailyStatus holds exactly the snapshot's daily entries whose date lies
\* in that closed range, in snapshot order, and the four weekly totals are
\* the sums over just those entries.
C16_CachedReadFiltersByDate ==
    entryCalc.pc = "read" =>
      LET expected == EntriesInRange(entryCalc.entry.dailyStatus,
                                     entryCalc.start_date, entryCalc.end_date)
          r == entryCalc.result
      IN  /\ r.dailyStatus = expected
          /\ r.weeklyScreenshots = SumList(expected, "screenshots")
          /\ r.weeklyCheckins = SumList(expected, "checkins")
          /\ r.weeklyReddit = SumList(expected, "reddit")
          /\ r.weeklyTwitter = SumList(expected, "twitter")

\* C19: overallCompliance is an integer in [0, 100] in the entry a refresh
\* or a live read builds and in the entry a cached read returns, also when
\* the check-ins exceed days x EMA_PROMPTS_PER_DAY, which reports 100.
C19_ComplianceWithinBounds ==
    /\ entryCalc.pc \in {"built", "read"} =>
         LET e == entryCalc.entry
             days == Max(1, Cardinality(DOMAIN entryCalc.daily_status))
         IN  /\ e.overallCompliance \in 0..100
             /\ e.weeklyCheckins >= days * EMA_PROMPTS_PER_DAY
                  => e.overallCompliance = 100
    /\ entryCalc.pc = "read" =>
         LET r == entryCalc.result
             days == Max(1, Len(r.dailyStatus))
         IN  /\ r.overallCompliance \in 0..100
             /\ r.weeklyCheckins >= days * EMA_PROMPTS_PER_DAY
                  => r.overallCompliance = 100

\* 10 check-ins over 2 days at 3 a day, built and read back over both days.
C19_Witness ==
    /\ entryCalc.pc = "read"
    /\ Cardinality(DOMAIN entryCalc.daily_status) = 2
    /\ entryCalc.entry.weeklyCheckins = 10
    /\ entryCalc.entry.overallCompliance = 100
    /\ entryCalc.result.weeklyCheckins = 10
    /\ Len(entryCalc.result.dailyStatus) = 2
    /\ entryCalc.result.overallCompliance = 100

\* round(100 x total / (days x EMA_PROMPTS_PER_DAY)), to the nearest integer.
RoundedPercent(total, days) ==
    (2 * 100 * total + days * EMA_PROMPTS_PER_DAY)
        \div (2 * days * EMA_PROMPTS_PER_DAY)

\* C20: overallCompliance equals clamp(0, 100, round(100 x total_checkins
\* / (days_in_window x EMA_PROMPTS_PER_DAY))), where days_in_window is
\* max(1, dates with a recorded aggregate) on a live pass and
\* max(1, filtered daily entries) on a cached read.
C20_ComplianceIsRoundedPercent ==
    /\ entryCalc.pc \in {"built", "read"} =>
         entryCalc.entry.overallCompliance =
           Max(0, Min(100, RoundedPercent(
                 entryCalc.entry.weeklyCheckins,
                 Max(1, Cardinality(DOMAIN entryCalc.daily_status)))))
    /\ entryCalc.pc = "read" =>
         entryCalc.result.overallCompliance =
           Max(0, Min(100, RoundedPercent(
                 entryCalc.result.weeklyCheckins,
                 Max(1, Len(entryCalc.result.dailyStatus)))))

\* ---------------------------------------------- the store and the registry
\* Number of enrolled participants get_all_participant_ids returns.
MaxParticipants == 2

\* Midnight of the day the refreshes run on; the clock also reaches noon.
RefreshDay == 2 * (WindowDays + 2)
ClockValues == {RefreshDay, RefreshDay + 1}

\* get_all_participant_ids(enrolled_only=True): ids in stream order; the
\* first participant has no enrolledAt (inUse only), the others have one.
Registry ==
    [i \in 1..MaxParticipants |->
       [id |-> i, enrolledAt |-> IF i = 1 THEN NoneTime ELSE 2]]

\* Records of the three sub-collections of participants/{id}.  ts is how
\* the record's timestamp field is stored: a native timestamp, or an
\* ISO-8601 string written with the UTC offset zone (in half days);
\* responses is how a check-in's responses field is stored.
NativeMap == [ts |-> "native", zone |-> 0, responses |-> "map"]

RecordShapes ==
    {[coll |-> "events", type |-> "screenshot", platform |-> "reddit",
      words |-> 2, crisis |-> FALSE] @@ NativeMap,
     [coll |-> "ema_responses", type |-> "", platform |-> "", words |-> 0,
      crisis |-> TRUE] @@ NativeMap,
     [coll |-> "safety_alerts", type |-> "", platform |-> "", words |-> 0,
      crisis |-> FALSE] @@ NativeMap}

\* From the first midnight of the refresh window to the refresh.
RecordInstants == (RefreshDay - 2 * WindowDays)..RefreshDay

\* The records are the first participant's; the others have none.
RecordUniverse ==
    {[pid |-> Registry[1].id, at |-> t] @@ sh :
       t \in RecordInstants, sh \in RecordShapes}

\* The stores a run starts from: empty, or one record.
Stores == {{}} \cup {{r} : r \in RecordUniverse}

\* datetime.fromtimestamp(ts.timestamp()): the naive local datetime.
FromTimestamp(t) == t + tz_offset

\* --------------------------------------------- compute_participant_stats
\* The documents of a query's stream, in the order of the filtered field.
StreamOf(S) ==
    CHOOSE q \in [1..Cardinality(S) -> S] :
      /\ \A i, j \in DOMAIN q : i # j => q[i] # q[j]
      /\ \A i, j \in DOMAIN q : i < j => q[i].at <= q[j].at

\* The date key of a record: strftime of the local datetime of a native
\* timestamp, or the first ten characters of a string as it was written.
RecordDate(r) ==
    IF r.ts = "native" THEN DateOf(FromTimestamp(r.at))
                       ELSE DateOf(r.at + r.zone)

\* responses of a check-in as the crisis loop gets it: a str goes through
\* json.loads, whose exception is caught and leaves {}; what is then not
\* a dict has no .items() and raises.
ParsedResponses_Unguarded(responses) ==
    CASE responses \in {"map", "json_map"} -> "map"
      [] OTHER -> "raises"

ParsedResponses(responses) ==
    CASE responses \in {"map", "json_map"} -> "map"
      [] responses = "not_json" -> "empty"
      [] OTHER -> "raises"

\* The outcome in which a sub-query's stream raises after its first
\* document.
Partway(coll) ==
    CASE coll = "safety_alerts" -> "safety_alerts_partway"
      [] coll = "ema_responses" -> "ema_responses_partway"

\* How many documents of a stream of n are taken before the sub-query's
\* stream raises: none, the first one, or all of them.
TakenBeforeFailure(coll, failed, n) ==
    IF failed = coll THEN 0
    ELSE IF failed = Partway(coll) THEN Min(1, n)
    ELSE n

\* if captured_at: / if triggered_at: / if completed_at: the record has a
\* timestamp to date it by.
HasTimestamp(r) == r.ts # "missing"

\* The alerts counted: the loop stops at the stream's failure and at the
\* first triggeredAt that is a string (it has no .strftime); except: pass.
\* An alert without triggeredAt is passed over.
AlertsCounted(stream, failed) ==
    LET n == Len(stream)
        breaks == {i \in 1..n : stream[i].ts = "iso"}
        upto == IF breaks = {} THEN n
                ELSE (CHOOSE i \in breaks : \A j \in breaks : i <= j) - 1
    IN  {stream[i] :
           i \in {j \in 1..Min(upto, TakenBeforeFailure("safety_alerts",
                                                         failed, n)) :
                    HasTimestamp(stream[j])}}

\* The check-ins counted: the loop stops at the stream's failure and after
\* the first check-in whose responses raise (it is counted before).  A
\* check-in without completedAt is passed over, its responses unread.
CheckinsCounted(stream, failed) ==
    LET n == Len(stream)
        breaks == {i \in 1..n :
                     /\ HasTimestamp(stream[i])
                     /\ ParsedResponses(stream[i].responses) = "raises"}
        upto == IF breaks = {} THEN n
                ELSE CHOOSE i \in breaks : \A j \in breaks : i <= j
    IN  {stream[i] :
           i \in {j \in 1..Min(upto, TakenBeforeFailure("ema_responses",
                                                         failed, n)) :
                    HasTimestamp(stream[j])}}

\* The aggregation over a participant's records.  failed: the sub-query
\* whose stream raised inside its try, before its first document
\* (the collection's name) or after it (Partway of the name); "none" when
\* neither did.  The events query is outside any try: its failure is the
\* caller's.
StatsOver(records, pid, start_dt, end_dt, failed) ==
    LET mine(coll) == {r \in records : r.pid = pid /\ r.coll = coll}
        events == {r \in mine("events") :
                     /\ r.at >= start_dt /\ r.at < end_dt + 2
                     /\ HasTimestamp(r)}
        alerts == AlertsCounted(
                    StreamOf({r \in mine("safety_alerts") :
                                r.at >= start_dt /\ r.at <= end_dt + 2}),
                    failed)
        checkins == CheckinsCounted(
                      StreamOf({r \in mine("ema_responses") :
                                  r.at >= start_dt /\ r.at < end_dt + 2}),
                      failed)
        day(r) == RecordDate(r)
        counted == {r \in events : r.type \in {"screenshot", "checkin"}}
        dates == {day(r) : r \in counted \cup alerts \cup checkins}
        on(S, d) == {r \in S : day(r) = d}
        shots_of(d) == {r \in on(events, d) : r.type = "screenshot"}
        words_of(S) == LET f[T \in SUBSET S] ==
                             IF T = {} THEN 0
                             ELSE LET r == CHOOSE x \in T : TRUE
                                  IN  r.words * 5 + f[T \ {r}]
                       IN  f[S]
    IN  [d \in dates |->
           [screenshots |-> Cardinality(shots_of(d)),
            ocr_chars |-> words_of(shots_of(d)),
            checkins |-> Cardinality({r \in on(events, d) :
                                        r.type = "checkin"})
                         + Cardinality(on(checkins, d)),
            safety_alerts |-> Cardinality(on(alerts, d)),
            reddit |-> Cardinality({r \in shots_of(d) :
                                      r.platform = "reddit"}),
            twitter |-> Cardinality({r \in shots_of(d) :
                                       r.platform \in {"twitter", "x"}}),
            crisis_indicated |->
               \E r \in on(checkins, d) :
                 ParsedResponses(r.responses) = "map" /\ r.crisis]]

ComputeParticipantStats(pid, start_dt, end_dt, failed) ==
    StatsOver(store, pid, start_dt, end_dt, failed)

\* study_start: the enrolment instant, or start_dt when there is none.
StudyStart(p_info, start_dt) ==
    IF p_info.enrolledAt # NoneTime THEN FromTimestamp(p_info.enrolledAt)
                                    ELSE start_dt

\* One participant's entry over [start_dt, end_dt].
ParticipantEntry(p_info, start_dt, end_dt, failed) ==
    BuildEntry(p_info.id, StudyStart(p_info, start_dt),
               ComputeParticipantStats(p_info.id, start_dt, end_dt, failed),
               start_dt, end_dt)

SubqueryOutcomes == {"none", "events", "safety_alerts", "ema_responses"}

\* One read request is followed per run, and the run ends with its
\* response: the steps below are those taken before the response is sent.
Unanswered == overall.code = 0

\* ---------------------------------------------- refresh_dashboard_cache
\* (scheduler_refresh_cache has the same body after its secret check.)
\* end_dt = datetime.now(); start_dt = end_dt - timedelta(days=14);
\* participants_info = get_all_participant_ids(enrolled_only=True)
R_Begin(k) ==
    /\ Unanswered
    /\ refresh[k].pc = "idle"
    /\ \E enumFails \in BOOLEAN :
         refresh' = [refresh EXCEPT ![k] =
           IF enumFails
             THEN [@ EXCEPT !.pc = "done", !.code = 500]
             ELSE [@ EXCEPT !.pc = "computing",
                            !.end_dt = clock + tz_offset,
                            !.start_dt = clock + tz_offset - 2 * WindowDays]]
    /\ UNCHANGED <<store, tz_offset, clock, cacheDoc, overall, writes>>
    /\ UNCHANGED <<exportVars, alertVars, entryVars, callVars>>

\* One turn of "for p_info in participants_info": the participant's stats
\* and entry, or the exception of its events query (HTTP 500, no write).
\* compute_participant_stats raises (its events query is outside any try):
\* except Exception as e: raise HTTPException(status_code=500, ...)
AfterEventsFailure_Continues(r) ==
    [r EXCEPT
       !.code = 500,
       !.cached_data =
          [i \in 1..Len(Registry) |->
             IF i <= Len(r.cached_data) THEN r.cached_data[i]
             ELSE ParticipantEntry(Registry[i], r.start_dt, r.end_dt,
                                   "none")]]

AfterEventsFailure(r) == [r EXCEPT !.pc = "done", !.code = 500]

R_Compute(k) ==
    /\ Unanswered
    /\ refresh[k].pc = "computing"
    /\ Len(refresh[k].cached_data) < Len(Registry)
    /\ \E failed \in SubqueryOutcomes :
         LET p_info == Registry[Len(refresh[k].cached_data) + 1]
             r == refresh[k]
         IN  refresh' = [refresh EXCEPT ![k] =
               IF failed = "events"
                 THEN AfterEventsFailure(r)
                 ELSE [@ EXCEPT
                         !.cached_data =
                            Append(@, ParticipantEntry(p_info, r.start_dt,
                                                       r.end_dt, failed)),
                         !.degraded =
                            @ \/ ParticipantEntry(p_info, r.start_dt,
                                                  r.end_dt, failed)
                                 # ParticipantEntry(p_info, r.start_dt,
                                                    r.end_dt, "none")]]
    /\ UNCHANGED <<store, tz_offset, clock, cacheDoc, overall, writes>>
    /\ UNCHANGED <<exportVars, alertVars, entryVars, callVars>>

\* cache_ref.set({"participants": cached_data, "refreshedAt": utcnow, ...})
SnapshotDoc_Merged(old, cached_data, utc, start_dt, end_dt) ==
    [exists |-> TRUE,
     participants |-> old.participants \o cached_data,
     refreshedAt |-> utc,
     startDate |-> Strftime(DateOf(start_dt)),
     endDate |-> Strftime(DateOf(end_dt)),
     participantCount |-> Len(cached_data)]

SnapshotDoc(old, cached_data, utc, start_dt, end_dt) ==
    [exists |-> TRUE,
     participants |-> cached_data,
     refreshedAt |-> utc,
     startDate |-> Strftime(DateOf(start_dt)),
     endDate |-> Strftime(DateOf(end_dt)),
     participantCount |-> Len(cached_data)]

R_Set(k) ==
    /\ Unanswered
    /\ refresh[k].pc = "computing"
    /\ Len(refresh[k].cached_data) = Len(Registry)
    /\ cacheDoc' = SnapshotDoc(cacheDoc, refresh[k].cached_data, clock,
                               refresh[k].start_dt, refresh[k].end_dt)
    /\ writes' = Append(writes, [by |-> k,
                                 participants |-> refresh[k].cached_data,
                                 refreshedAt |-> clock,
                                 startDate |-> cacheDoc'.startDate,
                                 endDate |-> cacheDoc'.endDate,
                                 degraded |-> refresh[k].degraded])
    /\ refresh' = [refresh EXCEPT ![k].pc = "done", ![k].code = 200]
    /\ UNCHANGED <<store, tz_offset, clock, overall>>
    /\ UNCHANGED <<exportVars, alertVars, entryVars, callVars>>

Refresh_Begin == \E k \in Refreshers : R_Begin(k)
Refresh_Compute == \E k \in Refreshers : R_Compute(k)
Refresh_Set == \E k \in Refreshers : R_Set(k)

\* The wall clock passes from midnight to noon.
Advance ==
    /\ Unanswered
    /\ clock + 1 \in ClockValues
    /\ clock' = clock + 1
    /\ UNCHANGED <<store, tz_offset, cacheDoc, refresh, overall, writes>>
    /\ UNCHANGED <<exportVars, alertVars, entryVars, callVars>>

\* --------------------------------------------------- get_overall_status
\* results[start_idx:end_idx] with start_idx = (page - 1) * page_size
PageSlice_FromPageNumber(results, page, page_size) ==
    SubSeq(results, page * page_size + 1,
           Min(page * page_size + page_size, Len(results)))

PageSlice(results, page, page_size) ==
    SubSeq(results, (page - 1) * page_size + 1,
           Min((page - 1) * page_size + page_size, Len(results)))

\* (total_participants + page_size - 1) // page_size
TotalPages(total, page_size) == (total + page_size - 1) \div page_size

\* The cached path: every snapshot entry filtered, then the page.
CachedResponse(q, doc) ==
    LET results == [i \in 1..Len(doc.participants) |->
                      FilterEntry(doc.participants[i], q.start_date,
                                  q.end_date)]
    IN  [NoOverall EXCEPT
           !.code = 200, !.start_date = q.start_date,
           !.end_date = q.end_date, !.page = q.page,
           !.page_size = q.page_size, !.payload = doc,
           !.participants = PageSlice(results, q.page, q.page_size),
           !.total = Len(results),
           !.total_pages = TotalPages(Len(results), q.page_size),
           !.fromCache = TRUE,
           !.refreshedAt = FromTimestamp(doc.refreshedAt)]

\* The live path: the page of get_all_participant_ids(), each participant
\* computed over the requested range.  enumFails: the enumeration raised;
\* failed: the sub-query that raised while a participant was computed.
LiveResponse(q, enumFails, failed) ==
    LET paginated == PageSlice(Registry, q.page, q.page_size)
        start_dt == Strptime(q.start_date)
        end_dt == Strptime(q.end_date)
        sent == [NoOverall EXCEPT !.start_date = q.start_date,
                                  !.end_date = q.end_date, !.page = q.page,
                                  !.page_size = q.page_size]
    IN  IF enumFails \/ (failed = "events" /\ paginated # <<>>)
          THEN [sent EXCEPT !.code = 500,
                            !.failed = IF enumFails THEN "enumeration"
                                                    ELSE failed]
          ELSE [sent EXCEPT
                  !.code = 200,
                  !.participants =
                     [i \in 1..Len(paginated) |->
                        ParticipantEntry(paginated[i], start_dt, end_dt,
                                         failed)],
                  !.total = Len(Registry),
                  !.total_pages = TotalPages(Len(Registry), q.page_size)]

\* The requests of the run: the window of a refresh made at RefreshDay,
\* every page up to one past the last, one or two participants a page.
RefreshDates == DateOf(RefreshDay - 2 * WindowDays)..DateOf(RefreshDay)
StatusRequests ==
    [start_date : {Strftime(DateOf(RefreshDay - 2 * WindowDays))},
     end_date : {Strftime(DateOf(RefreshDay))},
     page : 1..(MaxParticipants + 1),
     page_size : {1, 2}]

\* cache_doc = cache_ref.get(), then one of the two paths.
G_Overall ==
    /\ Unanswered
    /\ \E q \in StatusRequests :
         \/ /\ cacheDoc.exists
            /\ overall' = CachedResponse(q, cacheDoc)
         \/ /\ ~cacheDoc.exists
            /\ \E enumFails \in BOOLEAN :
                 \E failed \in IF enumFails THEN {"none"}
                                            ELSE SubqueryOutcomes :
                   overall' = LiveResponse(q, enumFails, failed)
    /\ UNCHANGED <<store, tz_offset, clock, cacheDoc, refresh, writes>>
    /\ UNCHANGED <<exportVars, alertVars, entryVars, callVars>>

StatusInit ==
    /\ ExportAtStartup
    /\ AlertCacheAtStartup
    /\ StatusCacheAtStartup
    /\ store \in Stores
    /\ tz_offset \in {0, 1}
    /\ clock = RefreshDay
    /\ entryCalc = IdleEntryCalc
    /\ CallsAtStartup

StatusNext ==
    \/ Refresh_Begin
    \/ Refresh_Compute
    \/ Refresh_Set
    \/ Advance
    \/ G_Overall

StatusSpec == StatusInit /\ [][StatusNext]_vars

\* ------------------------------------------------- properties: snapshot
\* The answered read was served from the snapshot document.
CachedRead == overall.code = 200 /\ overall.fromCache

\* The document a completed refresh stored, as recorded in writes.
StoredBy(w) ==
    [exists |-> TRUE, participants |-> w.participants,
     refreshedAt |-> w.refreshedAt, startDate |-> w.startDate,
     endDate |-> w.endDate, participantCount |-> Len(w.participants)]

\* A step that changes the snapshot document is one set() by a refresh
\* that has computed every participant, and stores that refresh's list.
WholeReplacement ==
    cacheDoc' # cacheDoc =>
      \E k \in Refreshers :
        /\ refresh[k].pc = "computing"
        /\ Len(refresh[k].cached_data) = Len(Registry)
        /\ refresh'[k].pc = "done"
        /\ cacheDoc'.participants = refresh[k].cached_data
        /\ cacheDoc'.participantCount = Len(Registry)
        /\ Len(writes') = Len(writes) + 1

\* C14: a cached read, also one made while a refresh is running, is
\* served from exactly one snapshot document, the one some completed refresh
\* stored (its participants, dates and timestamp are that refresh's and no
\* other's); and the snapshot changes only by one whole-document
\* replacement made after every participant has been computed.
C14_ReadSeesOneSnapshot ==
    /\ [](CachedRead =>
            /\ \E i \in 1..Len(writes) : overall.payload = StoredBy(writes[i])
            /\ overall.refreshedAt = FromTimestamp(overall.payload.refreshedAt)
            /\ \A i \in 1..Len(overall.participants) :
                 \E j \in 1..Len(overall.payload.participants) :
                   overall.participants[i] =
                     FilterEntry(overall.payload.participants[j],
                                 overall.start_date, overall.end_date))
    /\ [][WholeReplacement]_vars

\* A read answered from the stored snapshot while another refresh is part
\* way through its participants with a different first entry.
C14_Witness ==
    /\ CachedRead
    /\ \E k \in Refreshers :
         /\ refresh[k].pc = "computing"
         /\ Len(refresh[k].cached_data) \in 1..(Len(Registry) - 1)
         /\ refresh[k].cached_data[1] # overall.payload.participants[1]

\* C15: two successive refreshes over the same window dates, with the
\* store and the registry unchanged between them and no sub-query failing
\* in either, store identical participants lists.
C15_RefreshIsIdempotent ==
    \A i \in 1..(Len(writes) - 1) :
      LET first == writes[i]
          second == writes[i + 1]
      IN  (/\ first.startDate = second.startDate
           /\ first.endDate = second.endDate
           /\ ~first.degraded
           /\ ~second.degraded)
            => first.participants = second.participants

\* ----------------------------------------------- properties: the read
\* The read found the snapshot: fromCache with the snapshot's timestamp.
SnapshotServed ==
    overall.payload.exists =>
      /\ overall.code = 200
      /\ overall.fromCache
      /\ overall.refreshedAt = overall.payload.refreshedAt

\* The read found no snapshot: a successful live response.
MissingSnapshotServed ==
    ~overall.payload.exists =>
      /\ overall.code = 200
      /\ ~overall.fromCache
      /\ \A i \in 1..Len(overall.participants) :
           \E j \in 1..Len(Registry) :
             overall.participants[i] =
               ParticipantEntry(Registry[j], Strptime(overall.start_date),
                                Strptime(overall.end_date), "none")

\* C17: a read that finds the snapshot answers fromCache=true with the
\* snapshot's refresh timestamp; a read that finds none answers
\* successfully, fromCache=false, computed live; never an error.
C17_CachedElseLive ==
    ~Unanswered => SnapshotServed /\ MissingSnapshotServed

\* The least number of pages of page_size entries that hold total entries.
Ceil(total, page_size) ==
    CHOOSE n \in 0..total :
      /\ n * page_size >= total
      /\ (n > 0 => (n - 1) * page_size < total)

\* Pages 1..n of results, one after the other.
RECURSIVE PagesJoined(_, _, _)
PagesJoined(results, page_size, n) ==
    IF n = 0 THEN <<>>
    ELSE PagesJoined(results, page_size, n - 1)
           \o PageSlice(results, n, page_size)

WrittenBy(k) ==
    /\ Len(writes') = Len(writes) + 1
    /\ writes'[Len(writes')].by = k

\* C36: if a refresh fails while computing a participant, no snapshot is
\* written: the request has ended with an error, and from the failure on
\* it changes neither the stored document nor its absence.
C36_FailedRefreshWritesNothing ==
    /\ [](\A k \in Refreshers :
            refresh[k].code = 500 => refresh[k].pc = "done")
    /\ [][\A k \in Refreshers :
            /\ refresh[k].code = 500 => ~WrittenBy(k)
            /\ (refresh[k].code = 0 /\ refresh'[k].code = 500)
                 => (cacheDoc' = cacheDoc /\ writes' = writes)]_vars

\* A refresh failed at its second participant while the document stored by
\* the other refresh is still in place.
C36_Witness ==
    \E k, j \in Refreshers :
      /\ refresh[k].code = 500
      /\ Len(refresh[k].cached_data) = 1
      /\ refresh[j].code = 200
      /\ cacheDoc.exists
      /\ cacheDoc = StoredBy(writes[Len(writes)])
      /\ writes[Len(writes)].by = j

\* ------------------------------------------ full-range read: properties
\* C37: a cached read whose range is the snapshot's startDate..endDate
\* returns for the participant the weeklyScreenshots, weeklyCheckins,
\* weeklyReddit, weeklyTwitter and overallCompliance stored in the
\* snapshot entry.
C37_FullRangeReadEqualsStored ==
    (/\ entryCalc.pc = "read"
     /\ entryCalc.start_date = Strftime(DateOf(EntryStart))
     /\ entryCalc.end_date = Strftime(DateOf(EntryEnd)))
      => LET e == entryCalc.entry
             r == entryCalc.result
         IN  /\ r.weeklyScreenshots = e.weeklyScreenshots
             /\ r.weeklyCheckins = e.weeklyCheckins
             /\ r.weeklyReddit = e.weeklyReddit
             /\ r.weeklyTwitter = e.weeklyTwitter
             /\ r.overallCompliance = e.overallCompliance

\* ======================================================================
\* Safety-alert cache: the manual refresh, overlapping refreshes, the stop
\* signal and the cache record's invariants.
\* ======================================================================

\* The step in which a manual refresh swaps and answers.
ManualSwapStep == manual.call.pc = "swap" /\ manual'.call.pc = "idle"

\* C25: a successful manual refresh stores the result of the one live
\* fetch it started in one swap, answers with the number of alerts it
\* stored and that swap's updated_at, and right after its swap the cache
\* holds those alerts with status ok and no error.
C25_ManualRefreshIsOneCycle ==
    [][ManualSwapStep =>
         /\ fetches' = fetches
         /\ utcnow' = utcnow + 1
         /\ swapLog' = swapLog \cup {<<manual.call.alerts, utcnow>>}
         /\ \A i \in 1..Len(manual.call.alerts) :
              manual.call.alerts[i].fetch = manual.call.fetch
         /\ SAFETY_ALERT_CACHE'.alerts = manual.call.alerts
         /\ SAFETY_ALERT_CACHE'.status = "ok"
         /\ SAFETY_ALERT_CACHE'.error = NoneMsg
         /\ manual'.resp.code = 200
         /\ manual'.resp.count = Len(SAFETY_ALERT_CACHE'.alerts)
         /\ manual'.resp.refreshedAt = SAFETY_ALERT_CACHE'.updated_at]_vars

\* A manual refresh has just answered with the alerts now in the cache,
\* replacing the error a failed tick left.
C25_Witness ==
    /\ manual.resp.code = 200
    /\ manual.resp.count >= 1
    /\ manual.resp.count = Len(SAFETY_ALERT_CACHE.alerts)
    /\ manual.resp.refreshedAt = SAFETY_ALERT_CACHE.updated_at
    /\ SAFETY_ALERT_CACHE.status = "ok"
    /\ tick.call.exc # NoneMsg
    /\ tick.call.pc = "waiting"

\* C27: the cache content is never replaced by the result of a fetch that
\* started before the fetch whose result is stored.
C27_NewerNeverOverwritten ==
    [][lastSwap'.fetch >= lastSwap.fetch]_vars

\* The background loop is out of its loop.
LoopEnded == tick.call.pc \in {"stopped", "cancelled"}

\* The background loop starts a live fetch in this step.
TickStartsFetch == tick.call.pc # "fetching" /\ tick'.call.pc = "fetching"

\* Once the signal is set the loop starts no fetch; setting the signal
\* leaves the loop where it is; a signal seen at the wait ends the loop.
StopObservedBetweenTicks ==
    /\ TickStartsFetch => ~stop_event /\ ~stop_event'
    /\ stop_event' # stop_event => tick' = tick
    /\ (stop_event /\ tick.call.pc \in {"waiting", "loop"} /\ tick' # tick)
         => LoopEnded'
    /\ LoopEnded => tick' = tick

\* C28 (as stated): once the stop signal is set the loop starts no
\* further fetch; a fetch in flight when the signal is set is not
\* interrupted and still swaps its result, after which the loop exits; a
\* signal set during the wait ends the loop without another fetch.
C28_StopAfterFetchInFlight ==
    [][/\ StopObservedBetweenTicks
       /\ (stop_event /\ tick.call.pc \in {"fetching", "swap"})
            => tick'.call.pc \in {"fetching", "swap", "except", "waiting"}
       /\ (stop_event /\ tick.call.pc = "swap" /\ tick' # tick)
            => lastSwap'.fetch = tick.call.fetch]_vars

\* C28 (amended): once the stop signal is set the loop starts no further
\* fetch, and the signal itself does not interrupt a fetch in flight: its
\* result is swapped and the loop then exits at the wait, unless the
\* shutdown's 5-second wait for the task expires first, in which case the
\* task is cancelled and the result is not swapped.  The task is cancelled
\* only after the signal is set.  A signal set during the wait ends the
\* loop without another fetch.
C28_StopWithGracePeriod ==
    [][/\ StopObservedBetweenTicks
       /\ (stop_event /\ tick.call.pc \in {"fetching", "swap"})
            => tick'.call.pc \in {"fetching", "swap", "except", "waiting",
                                  "cancelled"}
       /\ (stop_event /\ tick.call.pc = "swap" /\ tick' # tick)
            => \/ lastSwap'.fetch = tick.call.fetch /\ tick'.call.pc = "waiting"
               \/ lastSwap' = lastSwap /\ tick'.call.pc = "cancelled"
       /\ tick'.call.pc = "cancelled" => stop_event]_vars

\* The signal is set while the loop's second fetch is in flight.
C28_Witness ==
    /\ stop_event
    /\ tick.call.pc = "fetching"
    /\ tick.completed = 1

\* C29: a tick whose fetch raises does not end the loop: the loop ends
\* only after the stop signal is set; after the failure the loop waits,
\* and while the signal is not set the wait leads to the loop's head,
\* where the next tick can start; a later successful tick sets status ok,
\* clears error and replaces alerts.
C29_LoopSurvivesFailure ==
    /\ [](LoopEnded => stop_event)
    /\ [](tick.call.pc = "waiting" => ENABLED T_Wait)
    /\ []((tick.call.pc = "loop" /\ ~stop_event /\ fetches < MaxFetches)
            => ENABLED T_Begin)
    /\ [][/\ (tick.call.pc = "except" /\ tick' # tick /\ ~stop_event)
               => tick'.call.pc = "waiting"
          /\ (tick.call.pc = "waiting" /\ tick' # tick /\ ~stop_event)
               => tick'.call.pc = "loop"
          /\ (tick.call.pc = "loop" /\ tick' # tick /\ ~stop_event)
               => tick'.call.pc = "fetching"
          /\ (tick.call.pc = "swap" /\ tick'.call.pc = "waiting")
               => /\ SAFETY_ALERT_CACHE'.status = "ok"
                  /\ SAFETY_ALERT_CACHE'.error = NoneMsg
                  /\ SAFETY_ALERT_CACHE'.alerts = tick.call.alerts]_vars

\* The first tick failed, the second one succeeded (no manual refresh ran).
C29_Witness ==
    /\ tick.completed = 2
    /\ fetches = 2
    /\ utcnow = 2
    /\ manual.call.pc = "idle"
    /\ manual.resp.code = 0
    /\ lastSwap.fetch = 2
    /\ SAFETY_ALERT_CACHE.status = "ok"
    /\ SAFETY_ALERT_CACHE.error = NoneMsg
    /\ SAFETY_ALERT_CACHE.alerts # <<>>
    /\ ~stop_event

\* C30: the cache record's status is never_run, ok or error; ok comes with
\* no error and an updated_at; error comes with a message; never_run comes
\* with no alerts and no updated_at; and status never returns to never_run.
C30_CacheRecordInvariants ==
    /\ [](/\ SAFETY_ALERT_CACHE.status \in {"never_run", "ok", "error"}
          /\ SAFETY_ALERT_CACHE.status = "ok"
               => /\ SAFETY_ALERT_CACHE.error = NoneMsg
                  /\ SAFETY_ALERT_CACHE.updated_at # NoneTime
          /\ SAFETY_ALERT_CACHE.status = "error"
               => SAFETY_ALERT_CACHE.error # NoneMsg
          /\ SAFETY_ALERT_CACHE.status = "never_run"
               => /\ SAFETY_ALERT_CACHE.alerts = <<>>
                  /\ SAFETY_ALERT_CACHE.updated_at = NoneTime)
    /\ [][SAFETY_ALERT_CACHE.status # "never_run"
            => SAFETY_ALERT_CACHE'.status # "never_run"]_vars

\* A swap has replaced the error of a failed first tick.
C30_Witness ==
    /\ SAFETY_ALERT_CACHE.status = "ok"
    /\ tick.call.exc # NoneMsg
    /\ lastSwap.fetch > tick.call.fetch
    /\ tick.completed = 1

\* The step of a read: get_safety_alerts answers.
ReadStep == reader' # reader

\* C31: the lock is held only for the swap and for a read's copy, never
\* during a live fetch: while a tick's or a manual refresh's fetch is in
\* flight a read can take the lock, and it returns the snapshot the cache
\* holds at that moment while the fetch is still in flight afterwards.
C31_ReadsNeverWaitForFetch ==
    /\ [](FetchInFlight => (LockFree /\ ENABLED G_Read))
    /\ [][(FetchInFlight /\ ReadStep) =>
            /\ reader'.resp = GetSafetyAlerts(SAFETY_ALERT_CACHE)
            /\ UNCHANGED <<tick, manual, SAFETY_ALERT_CACHE>>]_vars

\* A read answered with the snapshot while both a tick's and a manual
\* refresh's fetch were, and still are, in flight.
C31_Witness ==
    /\ reader.during
    /\ reader.resp.code = 200
    /\ reader.resp.alerts = SAFETY_ALERT_CACHE.alerts
    /\ tick.call.pc = "fetching"
    /\ manual.call.pc = "fetching"
    /\ reader.swaps = utcnow - 1

\* The step in which a manual refresh's fetch raises.
ManualFailureStep == manual.call.pc = "fetching" /\ manual'.call.pc = "idle"

\* C38: if a manual refresh's live fetch raises, the cache is left
\* entirely unchanged (alerts, updated_at, status and error; status is not
\* set to error) and the caller receives an error response.
C38_ManualFailureLeavesCache ==
    [][ManualFailureStep =>
         /\ SAFETY_ALERT_CACHE' = SAFETY_ALERT_CACHE
         /\ manual'.resp.code = 500]_vars

\* A manual refresh failed while the cache held a swapped-in list with
\* status ok.
C38_Witness ==
    /\ manual.resp.code = 500
    /\ manual.call.exc # NoneMsg
    /\ manual.call.pc = "idle"
    /\ SAFETY_ALERT_CACHE.status = "ok"
    /\ SAFETY_ALERT_CACHE.alerts # <<>>

\* The first tick has failed and no fetch has succeeded since: the only
\* tick completed, and the cache still has the status its failure set.
FirstTickFailed ==
    /\ tick.completed = 1
    /\ SAFETY_ALERT_CACHE.status = "error"

\* C39 (as stated): after a failed first tick, reads do not signal "not
\* ready": they return status error with the error message, an empty
\* alerts list and a null refreshedAt, until a later fetch succeeds.
C39_FailedFirstTickReadsEmpty ==
    FirstTickFailed =>
      LET resp == GetSafetyAlerts(SAFETY_ALERT_CACHE)
      IN  /\ resp.code = 200
          /\ resp.status = "error"
          /\ resp.error \in ExcMsgs
          /\ resp.alerts = <<>>
          /\ resp.refreshedAt = NoneTime

\* C39 (amended): after a failed first tick, reads do not signal "not
\* ready": they return status error with the error message, and the alerts
\* and refreshedAt of the last swap, which are the empty list and null
\* unless a manual refresh swapped before the tick failed.
C39_FailedFirstTickReadsError ==
    FirstTickFailed =>
      LET resp == GetSafetyAlerts(SAFETY_ALERT_CACHE)
      IN  /\ resp.code = 200
          /\ resp.status = "error"
          /\ resp.error \in ExcMsgs
          /\ resp.alerts = lastSwap.alerts
          /\ resp.refreshedAt = lastSwap.updated_at
          /\ lastSwap.fetch = 0 =>
                (resp.alerts = <<>> /\ resp.refreshedAt = NoneTime)

\* A read after the failed first tick returned the error and no alerts.
C39_Witness ==
    /\ FirstTickFailed
    /\ reader.ticks = 1
    /\ reader.resp.code = 200
    /\ reader.resp.status = "error"
    /\ reader.resp.error \in ExcMsgs
    /\ reader.resp.alerts = <<>>
    /\ reader.resp.refreshedAt = NoneTime

\* ======================================================================
\* compute_participant_stats, one call on its own: the records of one
\* participant are drawn, the call aggregates them over the window
\* [EntryStart, EntryEnd], and each sub-query succeeds or raises.
\* ======================================================================

\* ------------------------------------------------------------------ bounds
\* Number of records the participant has in the store.
MaxRecords == 2

\* Just before the window, its first midnight, its first noon, and the
\* noon of its last day.
StatsInstants == {EntryStart - 1, EntryStart, EntryStart + 1, EntryEnd + 1}

\* A screenshot event; check-ins with a map, with a string that is not
\* JSON, with a string that is a JSON list, and with a string timestamp
\* written one half day ahead of UTC; an alert, and one with a string
\* timestamp; an event, a check-in and an alert whose timestamp reads as
\* empty (at is then only the place in the stream).
StatsShapes ==
    {[coll |-> "events", type |-> "screenshot", platform |-> "reddit",
      words |-> 2, crisis |-> FALSE] @@ NativeMap,
     [coll |-> "ema_responses", type |-> "", platform |-> "", words |-> 0,
      crisis |-> TRUE] @@ NativeMap,
     [coll |-> "ema_responses", type |-> "", platform |-> "", words |-> 0,
      crisis |-> TRUE, ts |-> "native", zone |-> 0, responses |-> "not_json"],
     [coll |-> "ema_responses", type |-> "", platform |-> "", words |-> 0,
      crisis |-> FALSE, ts |-> "native", zone |-> 0,
      responses |-> "json_list"],
     [coll |-> "ema_responses", type |-> "", platform |-> "", words |-> 0,
      crisis |-> FALSE, ts |-> "iso", zone |-> 1, responses |-> "map"],
     [coll |-> "safety_alerts", type |-> "", platform |-> "", words |-> 0,
      crisis |-> FALSE] @@ NativeMap,
     [coll |-> "safety_alerts", type |-> "", platform |-> "", words |-> 0,
      crisis |-> FALSE, ts |-> "iso", zone |-> 0, responses |-> "map"],
     [coll |-> "events", type |-> "screenshot", platform |-> "reddit",
      words |-> 2, crisis |-> FALSE, ts |-> "missing", zone |-> 0,
      responses |-> "map"],
     [coll |-> "ema_responses", type |-> "", platform |-> "", words |-> 0,
      crisis |-> TRUE, ts |-> "missing", zone |-> 0, responses |-> "map"],
     [coll |-> "safety_alerts", type |-> "", platform |-> "", words |-> 0,
      crisis |-> FALSE, ts |-> "missing", zone |-> 0, responses |-> "map"]}

StatsUniverse ==
    {[pid |-> Registry[1].id, at |-> t] @@ sh :
       t \in StatsInstants, sh \in StatsShapes}

\* The sets of at most n records.
RECURSIVE RecordSets(_)
RecordSets(n) ==
    IF n = 0 THEN {{}}
    ELSE LET fewer == RecordSets(n - 1)
         IN  fewer \cup {S \cup {r} : S \in fewer, r \in StatsUniverse}

StatsStores == RecordSets(MaxRecords)

StatsOutcomes ==
    SubqueryOutcomes \cup {Partway("safety_alerts"), Partway("ema_responses")}

notStatsVars == <<exportVars, alertVars, statusVars, entryVars, registryCalc,
                  pool, moreVars>>

StatsInit ==
    /\ ExportAtStartup
    /\ AlertCacheAtStartup
    /\ StatusCacheAtStartup
    /\ store \in StatsStores
    /\ tz_offset \in {0, 1}
    /\ clock = 0
    /\ entryCalc = IdleEntryCalc
    /\ CallsAtStartup

\* daily_status = compute_participant_stats(pid, start_dt, end_dt)
S_Compute ==
    /\ statsCalc.pc = "idle"
    /\ \E failed \in StatsOutcomes :
         statsCalc' =
           IF failed = "events"
             THEN [pc |-> "raised", failed |-> failed, daily_status |-> <<>>]
             ELSE [pc |-> "done", failed |-> failed,
                   daily_status |->
                      ComputeParticipantStats(Registry[1].id, EntryStart,
                                              EntryEnd, failed)]
    /\ UNCHANGED notStatsVars

StatsNext ==
    \/ S_Compute

StatsSpec == StatsInit /\ [][StatsNext]_vars

\* ------------------------------------------------ aggregation: properties
StatDays == 0..(DateOf(EntryEnd) + 2)

\* daily_status.get(d, zeros)
DayOf(daily_status, d) ==
    IF d \in DOMAIN daily_status THEN daily_status[d] ELSE ZeroDay

\* The record is inside the range its sub-query filters on.
Scanned(r) ==
    /\ r.at >= EntryStart
    /\ IF r.coll = "safety_alerts" THEN r.at <= EntryEnd + 2
                                   ELSE r.at < EntryEnd + 2

\* The records of a collection that are scanned and dated d in UTC.
UtcDated(coll, d) ==
    {r \in store : /\ r.coll = coll /\ Scanned(r) /\ HasTimestamp(r)
                   /\ DateOf(r.at) = d}

\* No check-in's responses raise in the crisis loop.
ResponsesAreMaps ==
    \A r \in store :
      r.coll = "ema_responses" => ParsedResponses(r.responses) # "raises"

\* C22: with no sub-query failing (and every responses field a map or a
\* string), each scanned screenshot, check-in and alert is counted once,
\* under its UTC calendar date and under no other date, whether its
\* timestamp is native or an ISO-8601 string.
C22_CountedUnderUtcDate ==
    (statsCalc.pc = "done" /\ statsCalc.failed = "none" /\ ResponsesAreMaps)
      => \A d \in StatDays :
           LET day == DayOf(statsCalc.daily_status, d)
           IN  /\ DOMAIN statsCalc.daily_status \subseteq StatDays
               /\ day.screenshots = Cardinality(UtcDated("events", d))
               /\ day.checkins = Cardinality(UtcDated("ema_responses", d))
               /\ day.safety_alerts = Cardinality(UtcDated("safety_alerts", d))

\* C23: when the safety-alert sub-query fails, before its first alert or
\* part-way through its stream, the participant's event and check-in
\* counts are those of the call without the failure and safety_alerts is
\* zero for every date.
C23_AlertFailureCountsZero ==
    (statsCalc.pc = "done"
       /\ statsCalc.failed \in {"safety_alerts", Partway("safety_alerts")})
      => \A d \in StatDays :
           LET day == DayOf(statsCalc.daily_status, d)
               clean == DayOf(ComputeParticipantStats(
                                Registry[1].id, EntryStart, EntryEnd, "none"),
                              d)
           IN  /\ day.safety_alerts = 0
               /\ [day EXCEPT !.safety_alerts = clean.safety_alerts] = clean

\* The check-in loop reaches r: no check-in before it in the stream raises.
Reached(r) ==
    LET stream == StreamOf({x \in store : x.coll = "ema_responses"
                                            /\ Scanned(x)})
        at(x) == CHOOSE i \in DOMAIN stream : stream[i] = x
    IN  \A x \in store :
          (x.coll = "ema_responses" /\ Scanned(x) /\ x # r
             /\ ParsedResponses(x.responses) = "raises")
            => at(x) > at(r)

\* C24: a scanned check-in whose responses field is a string that is not
\* JSON does not make compute_participant_stats raise; compared with the
\* same call without that check-in, its date has one more check-in, the
\* same crisis_indicated flag and the same other counters, and every other
\* date is unchanged.
C24_MalformedResponsesCounted ==
    (statsCalc.pc # "idle" /\ statsCalc.failed = "none")
      => /\ statsCalc.pc = "done"
         /\ \A r \in store :
              (r.coll = "ema_responses" /\ r.responses = "not_json"
                 /\ Scanned(r) /\ Reached(r))
                => LET without == StatsOver(store \ {r}, Registry[1].id,
                                            EntryStart, EntryEnd, "none")
                   IN  \A d \in StatDays :
                         LET day == DayOf(statsCalc.daily_status, d)
                             was == DayOf(without, d)
                         IN  IF d = RecordDate(r)
                               THEN day = [was EXCEPT !.checkins = @ + 1]
                               ELSE day = was

\* A check-in with a non-JSON string naming a crisis was counted, before a
\* later check-in of another date, and its date is not flagged.
C24_Witness ==
    /\ statsCalc.pc = "done"
    /\ statsCalc.failed = "none"
    /\ \E r, x \in store :
         /\ r.coll = "ema_responses" /\ r.responses = "not_json" /\ r.crisis
         /\ Scanned(r)
         /\ x.coll = "ema_responses" /\ x.responses = "map" /\ Scanned(x)
         /\ x.at > r.at
         /\ RecordDate(x) # RecordDate(r)
         /\ DayOf(statsCalc.daily_status, RecordDate(r)).checkins = 1
         /\ ~DayOf(statsCalc.daily_status, RecordDate(r)).crisis_indicated
         /\ DayOf(statsCalc.daily_status, RecordDate(x)).checkins = 1

\* The code can date the record: it has a timestamp, and an alert's is
\* not a string.
Datable(r) == HasTimestamp(r) /\ (r.coll = "safety_alerts" => r.ts = "native")

\* C33: a record with a missing or unusable timestamp is skipped without
\* raising, and every other record of its source in the window is still
\* counted: the result is that of the same call over the records that can
\* be dated.
C33_UndatedRecordsSkipped ==
    (statsCalc.pc # "idle" /\ statsCalc.failed = "none" /\ ResponsesAreMaps)
      => /\ statsCalc.pc = "done"
         /\ statsCalc.daily_status =
              StatsOver({r \in store : Datable(r)}, Registry[1].id,
                        EntryStart, EntryEnd, "none")

\* C40: a check-in whose responses are not a map after decoding does not
\* keep the check-ins processed after it from being counted and from
\* setting the crisis flag of their dates.
C40_NonMapResponsesDoNotStopLoop ==
    (statsCalc.pc = "done" /\ statsCalc.failed = "none")
      => \A r, x \in store :
           (/\ r.coll = "ema_responses" /\ Scanned(r) /\ HasTimestamp(r)
            /\ ParsedResponses(r.responses) = "raises"
            /\ x.coll = "ema_responses" /\ Scanned(x) /\ HasTimestamp(x)
            /\ x.at > r.at)
             => LET day == DayOf(statsCalc.daily_status, RecordDate(x))
                IN  /\ day.checkins >= 1
                    /\ (x.responses = "map" /\ x.crisis)
                          => day.crisis_indicated

\* ------------------------------------------------------ the two registries
\* Document ids a registry may hold.
MaxRegistered == 2

\* The enrolment fields of a registry document: never enrolled, in use,
\* enrolled, re-enrolled only, enrolled and re-enrolled.
EnrolmentShapes ==
    {[registered |-> TRUE, inUse |-> FALSE, enrolledAt |-> NoneTime,
      lastEnrolledAt |-> NoneTime],
     [registered |-> TRUE, inUse |-> TRUE, enrolledAt |-> NoneTime,
      lastEnrolledAt |-> NoneTime],
     [registered |-> TRUE, inUse |-> FALSE, enrolledAt |-> 1,
      lastEnrolledAt |-> NoneTime],
     [registered |-> TRUE, inUse |-> FALSE, enrolledAt |-> NoneTime,
      lastEnrolledAt |-> 2],
     [registered |-> TRUE, inUse |-> TRUE, enrolledAt |-> 1,
      lastEnrolledAt |-> 2]}

Unregistered ==
    [registered |-> FALSE, inUse |-> FALSE, enrolledAt |-> NoneTime,
     lastEnrolledAt |-> NoneTime]

\* db.collection(collection_name).stream(): the documents of one
\* collection, one per id, in id order; collection stands for the content
\* of the document, which differs between the two collections.
StreamedDocs(collection_name, f) ==
    LET ids == SelectSeq([i \in 1..MaxRegistered |-> i],
                         LAMBDA i : f[i].registered)
    IN  [k \in 1..Len(ids) |->
           [id |-> ids[k], collection |-> collection_name,
            inUse |-> f[ids[k]].inUse, enrolledAt |-> f[ids[k]].enrolledAt,
            lastEnrolledAt |-> f[ids[k]].lastEnrolledAt]]

Collections(collection_name) ==
    {StreamedDocs(collection_name, f) :
       f \in [1..MaxRegistered -> EnrolmentShapes \cup {Unregistered}]}

\* is_enrolled
IsEnrolled(data) ==
    \/ data.inUse
    \/ data.enrolledAt # NoneTime
    \/ data.lastEnrolledAt # NoneTime

\* data.get("enrolledAt") or data.get("lastEnrolledAt")
EnrolledAtOf(data) ==
    IF data.enrolledAt # NoneTime THEN data.enrolledAt
    ELSE data.lastEnrolledAt

\* The loop over one collection's stream: seen_ids and participants_info
\* go in and come out.
RECURSIVE ScanCollection(_, _, _, _)
ScanCollection(docs, enrolled_only, seen_ids, participants_info) ==
    IF docs = <<>>
      THEN [seen_ids |-> seen_ids, participants_info |-> participants_info]
    ELSE LET doc == Head(docs)
         IN  IF doc.id \in seen_ids
               THEN ScanCollection(Tail(docs), enrolled_only, seen_ids,
                                   participants_info)
             ELSE IF enrolled_only /\ ~IsEnrolled(doc)
               THEN ScanCollection(Tail(docs), enrolled_only, seen_ids,
                                   participants_info)
             ELSE ScanCollection(Tail(docs), enrolled_only,
                                 seen_ids \cup {doc.id},
                                 Append(participants_info,
                                        [id |-> doc.id, data |-> doc,
                                         enrolledAt |-> EnrolledAtOf(doc)]))

\* get_all_participant_ids(enrolled_only)
GetAllParticipantIds(participants, valid_participants, enrolled_only) ==
    LET first == ScanCollection(participants, enrolled_only, {}, <<>>)
    IN  ScanCollection(valid_participants, enrolled_only, first.seen_ids,
                       first.participants_info).participants_info

notRegistryVars == <<exportVars, alertVars, statusVars, entryVars, statsCalc,
                     pool, moreVars>>

RegistryInit ==
    /\ ExportAtStartup
    /\ AlertCacheAtStartup
    /\ StatusCacheAtStartup
    /\ store = {}
    /\ tz_offset = 0
    /\ clock = 0
    /\ entryCalc = IdleEntryCalc
    /\ statsCalc = IdleStats
    /\ pool = IdlePool
    /\ MoreAtStartup
    /\ \E p \in Collections("participants"),
          v \in Collections("valid_participants"), e \in BOOLEAN :
         registryCalc = [pc |-> "idle", participants |-> p,
                         valid_participants |-> v, enrolled_only |-> e,
                         result |-> <<>>]

\* participants_info = get_all_participant_ids(enrolled_only)
G_AllParticipantIds ==
    /\ registryCalc.pc = "idle"
    /\ registryCalc' =
         [registryCalc EXCEPT
            !.pc = "done",
            !.result = GetAllParticipantIds(registryCalc.participants,
                                            registryCalc.valid_participants,
                                            registryCalc.enrolled_only)]
    /\ UNCHANGED notRegistryVars

RegistryNext ==
    \/ G_AllParticipantIds

RegistrySpec == RegistryInit /\ [][RegistryNext]_vars

\* ------------------------------------------------- registries: properties
\* The documents of a stream that carry the id.
WithId(docs, id) == SelectSeq(docs, LAMBDA d : d.id = id)

InBoth(id) ==
    /\ WithId(registryCalc.participants, id) # <<>>
    /\ WithId(registryCalc.valid_participants, id) # <<>>

Returned(id) == SelectSeq(registryCalc.result, LAMBDA x : x.id = id)

\* C21: get_all_participant_ids returns each id at most once, and for an
\* id registered in both registries the participants record alone decides
\* whether the id is returned and supplies its data; the valid_participants
\* record of that id is ignored.
C21_FirstRegistryWins ==
    registryCalc.pc = "done" =>
      \A id \in 1..MaxRegistered :
        /\ Len(Returned(id)) <= 1
        /\ InBoth(id) =>
             LET first == WithId(registryCalc.participants, id)[1]
             IN  /\ Returned(id) # <<>> <=>
                       (~registryCalc.enrolled_only \/ IsEnrolled(first))
                 /\ Returned(id) # <<>> =>
                       /\ Returned(id)[1].data = first
                       /\ Returned(id)[1].enrolledAt = EnrolledAtOf(first)

\* ------------------------------------------------------- the download pool
\* Attachment references handed to one call.
MaxRefs == 3

\* Largest of the small worker bounds tried beside the export's.
MaxSmallPool == 2

\* download_screenshots_concurrent(screenshot_infos, max_workers=15)
EXPORT_MAX_WORKERS == 15

WorkerBounds == (1..MaxSmallPool) \cup {EXPORT_MAX_WORKERS}

\* executor.submit starts one more worker thread while there are fewer than
\* max_workers of them.
AdjustThreadCount_Unbounded(threads, max_workers) == threads + 1

AdjustThreadCount(threads, max_workers) ==
    IF threads < max_workers THEN threads + 1 ELSE threads

notPoolVars == <<exportVars, alertVars, statusVars, entryVars, statsCalc,
                 registryCalc, moreVars>>

PoolInit ==
    /\ ExportAtStartup
    /\ AlertCacheAtStartup
    /\ StatusCacheAtStartup
    /\ store = {}
    /\ tz_offset = 0
    /\ clock = 0
    /\ entryCalc = IdleEntryCalc
    /\ statsCalc = IdleStats
    /\ registryCalc = IdleRegistry
    /\ MoreAtStartup
    /\ \E n \in 0..MaxRefs, w \in WorkerBounds :
         pool = [IdlePool EXCEPT !.max_workers = w,
                                 !.pending = [i \in 1..n |-> i]]

\* with ThreadPoolExecutor(max_workers=max_workers) as executor:
P_Open ==
    /\ pool.pc = "idle"
    /\ pool' = [pool EXCEPT !.pc = "open"]
    /\ UNCHANGED notPoolVars

\* executor.submit(download_single_screenshot, ss_info, bucket, session)
P_Submit ==
    /\ pool.pc = "open"
    /\ pool.pending # <<>>
    /\ pool' = [pool EXCEPT
                  !.pending = Tail(pool.pending),
                  !.queued = Append(pool.queued, Head(pool.pending)),
                  !.threads = AdjustThreadCount(pool.threads,
                                                pool.max_workers)]
    /\ UNCHANGED notPoolVars

\* An idle worker thread takes the oldest queued call and begins the fetch.
P_Start ==
    /\ pool.pc = "open"
    /\ pool.queued # <<>>
    /\ Cardinality(pool.running) < pool.threads
    /\ pool' = [pool EXCEPT !.queued = Tail(pool.queued),
                            !.running = pool.running \cup {Head(pool.queued)}]
    /\ UNCHANGED notPoolVars

\* download_single_screenshot returns, with the image or with None.
P_Finish ==
    /\ pool.pc = "open"
    /\ \E a \in pool.running, got \in BOOLEAN :
         pool' = [pool EXCEPT
                    !.running = pool.running \ {a},
                    !.done = pool.done \cup {[ref |-> a, img_data |-> got]}]
    /\ UNCHANGED notPoolVars

\* for future in as_completed(future_to_info): after every submit, one
\* completed future is taken and its image, if any, appended to results.
P_Collect ==
    /\ pool.pc = "open"
    /\ pool.pending = <<>>
    /\ \E f \in pool.done :
         pool' = [pool EXCEPT
                    !.done = pool.done \ {f},
                    !.results = IF f.img_data
                                  THEN Append(pool.results, f.ref)
                                  ELSE pool.results]
    /\ UNCHANGED notPoolVars

\* return results: every future was yielded and the executor shut down.
P_Return ==
    /\ pool.pc = "open"
    /\ pool.pending = <<>>
    /\ pool.queued = <<>>
    /\ pool.running = {}
    /\ pool.done = {}
    /\ pool' = [pool EXCEPT !.pc = "returned", !.threads = 0]
    /\ UNCHANGED notPoolVars

PoolNext ==
    \/ P_Open
    \/ P_Submit
    \/ P_Start
    \/ P_Finish
    \/ P_Collect
    \/ P_Return

PoolSpec == PoolInit /\ [][PoolNext]_vars

\* ------------------------------------------------------- pool: properties
\* C26: during one call of download_screenshots_concurrent with worker
\* bound W, never more than W attachment fetches are in flight, whatever
\* the number of references.
C26_AtMostWInFlight == Cardinality(pool.running) <= pool.max_workers

\* The bound is reached while references are still waiting.
C26_Witness ==
    /\ Cardinality(pool.running) = pool.max_workers
    /\ pool.queued # <<>>

\* ======================================================================
\* get_download_session, called by export jobs that run in threads of
\* their own: the global _download_session is tested and assigned without
\* a lock, so the threads interleave between the statements.
\* ======================================================================
\* Threads that call get_download_session.
MaxCallers == 2

notSessionVars == <<exportVars, alertVars, statusVars, entryVars, statsCalc,
                    registryCalc, pool, alertCalc, progress>>

SessionInit ==
    /\ ExportAtStartup
    /\ AlertCacheAtStartup
    /\ StatusCacheAtStartup
    /\ store = {}
    /\ tz_offset = 0
    /\ clock = 0
    /\ entryCalc = IdleEntryCalc
    /\ statsCalc = IdleStats
    /\ registryCalc = IdleRegistry
    /\ pool = IdlePool
    /\ alertCalc = IdleAlertCalc
    /\ progress = IdleProgress
    /\ \E n \in 1..MaxCallers :
         session = [NoSession EXCEPT
                      !.thr = [t \in 1..n |->
                                 [pc |-> "call", new |-> 0, ret |-> 0]]]

Callers == DOMAIN session.thr

\* if _download_session is None:
D_Test(t) ==
    /\ session.thr[t].pc = "call"
    /\ session' = [session EXCEPT
                     !.thr[t].pc = IF session.global = 0 THEN "create"
                                   ELSE "return"]
    /\ UNCHANGED notSessionVars

\* requests.Session(): a new session object.
D_Create(t) ==
    /\ session.thr[t].pc = "create"
    /\ session' = [session EXCEPT
                     !.created = session.created + 1,
                     !.mounted = Append(session.mounted, {}),
                     !.thr[t].new = session.created + 1,
                     !.thr[t].pc = "store"]
    /\ UNCHANGED notSessionVars

\* _download_session = <the new session>
D_Store(t) ==
    /\ session.thr[t].pc = "store"
    /\ session' = [session EXCEPT !.global = session.thr[t].new,
                                  !.thr[t].pc = "mount_https"]
    /\ UNCHANGED notSessionVars

\* _download_session.mount('https://', adapter): on the global as it is now.
D_MountHttps(t) ==
    /\ session.thr[t].pc = "mount_https"
    /\ session' = [session EXCEPT
                     !.mounted[session.global] = @ \cup {"https://"},
                     !.thr[t].pc = "mount_http"]
    /\ UNCHANGED notSessionVars

\* _download_session.mount('http://', adapter)
D_MountHttp(t) ==
    /\ session.thr[t].pc = "mount_http"
    /\ session' = [session EXCEPT
                     !.mounted[session.global] = @ \cup {"http://"},
                     !.thr[t].pc = "return"]
    /\ UNCHANGED notSessionVars

\* return _download_session
D_Return(t) ==
    /\ session.thr[t].pc = "return"
    /\ session' = [session EXCEPT !.thr[t].ret = session.global,
                                  !.thr[t].pc = "done"]
    /\ UNCHANGED notSessionVars

SessionNext ==
    \/ \E t \in Callers : D_Test(t)
    \/ \E t \in Callers : D_Create(t)
    \/ \E t \in Callers : D_Store(t)
    \/ \E t \in Callers : D_MountHttps(t)
    \/ \E t \in Callers : D_MountHttp(t)
    \/ \E t \in Callers : D_Return(t)

SessionSpec == SessionInit /\ [][SessionNext]_vars

\* ---------------------------------------------------- session: properties
Returned_Session(t) == session.thr[t].pc = "done"

\* C35: get_download_session creates at most one HTTP session per process;
\* every call, concurrent first calls of different export jobs included,
\* returns the same session instance.
C35_OneSessionPerProcess ==
    /\ session.created <= 1
    /\ \A t, u \in Callers :
         (Returned_Session(t) /\ Returned_Session(u)) =>
           session.thr[t].ret = session.thr[u].ret

\* ======================================================================
\* fetch_live_safety_alerts for one enrolled participant: the alert and
\* check-in documents are drawn, and the call builds the alert entries.
\* ======================================================================
\* Documents the two queries return.
MaxAlertDocs == 1
MaxEmaDocs == 2

NoneId == "<no session>"

\* A dict as a function from its keys.
Dict(keys, value) == [k \in keys |-> value]
EmptyDict == Dict({}, "")

\* The responses field as stored: a map, a JSON string of a map, a string
\* that is not JSON, or a JSON string of a list.
AlertResponseFields ==
    {[form |-> "map", map |-> Dict({"k1", "k2"}, "alert")],
     [form |-> "map", map |-> Dict({"k1"}, "alert")],
     [form |-> "json_map", map |-> Dict({"k2"}, "alert")],
     [form |-> "not_json", map |-> EmptyDict]}

EmaResponseFields ==
    {[form |-> "map", map |-> Dict({"k2", "k3"}, "checkin")],
     [form |-> "json_map", map |-> Dict({"k2"}, "checkin")],
     [form |-> "json_list", map |-> EmptyDict]}

AlertDocs ==
    {[alertId |-> 0, triggeredAt |-> ts, sessionId |-> sid, responses |-> r] :
       ts \in {"native", "missing", "string"}, sid \in {NoneId, "s1"},
       r \in AlertResponseFields}

EmaDocs ==
    {[sessionId |-> sid, responses |-> r] :
       sid \in {NoneId, "s1", "s2"}, r \in EmaResponseFields}

\* The sequences of at most n elements of S.
RECURSIVE SeqsUpTo(_, _)
SeqsUpTo(S, n) ==
    IF n = 0 THEN {<<>>}
    ELSE LET shorter == SeqsUpTo(S, n - 1)
         IN  shorter \cup {Append(q, x) : q \in shorter, x \in S}

\* alert_docs: ids in stream order (triggeredAt descending).
AlertStreams ==
    {[i \in 1..Len(q) |-> [q[i] EXCEPT !.alertId = i]] :
       q \in SeqsUpTo(AlertDocs, MaxAlertDocs)}

EmaStreams == SeqsUpTo(EmaDocs, MaxEmaDocs)

\* _safe_get_responses(data)
SafeGetResponses(data) ==
    IF data.responses.form \in {"map", "json_map"} THEN data.responses.map
    ELSE EmptyDict

\* ema_by_session: a later document of the stream replaces an earlier one
\* with the same sessionId; documents without a sessionId are left out.
RECURSIVE EmaBySession(_, _)
EmaBySession(ema_docs, ema_by_session) ==
    IF ema_docs = <<>> THEN ema_by_session
    ELSE LET ema == Head(ema_docs)
             rest == Tail(ema_docs)
         IN  IF ema.sessionId = NoneId
               THEN EmaBySession(rest, ema_by_session)
               ELSE EmaBySession(
                      rest,
                      [sid \in DOMAIN ema_by_session \cup {ema.sessionId} |->
                         IF sid = ema.sessionId THEN SafeGetResponses(ema)
                         ELSE ema_by_session[sid]])

\* ema_by_session.get(session_id, {})
FullResponses(ema_by_session, session_id) ==
    IF session_id \in DOMAIN ema_by_session THEN ema_by_session[session_id]
    ELSE EmptyDict

\* {**alert_responses, **full_responses}
MergedResponses_AlertWins(alert_responses, full_responses) ==
    [k \in DOMAIN alert_responses \cup DOMAIN full_responses |->
       IF k \in DOMAIN alert_responses THEN alert_responses[k]
       ELSE full_responses[k]]

MergedResponses(alert_responses, full_responses) ==
    [k \in DOMAIN alert_responses \cup DOMAIN full_responses |->
       IF k \in DOMAIN full_responses THEN full_responses[k]
       ELSE alert_responses[k]]

\* The loop over alert_docs: an alert without triggeredAt is skipped, one
\* whose triggeredAt is a string raises on .strftime and is skipped by the
\* inner except; the others are appended.
RECURSIVE AlertEntries(_, _, _)
AlertEntries(alert_docs, ema_by_session, alerts) ==
    IF alert_docs = <<>> THEN alerts
    ELSE LET alert == Head(alert_docs)
         IN  IF alert.triggeredAt # "native"
               THEN AlertEntries(Tail(alert_docs), ema_by_session, alerts)
               ELSE AlertEntries(
                      Tail(alert_docs), ema_by_session,
                      Append(alerts,
                             [alertId |-> alert.alertId,
                              sessionId |-> alert.sessionId,
                              responses |->
                                MergedResponses(
                                  SafeGetResponses(alert),
                                  FullResponses(ema_by_session,
                                                alert.sessionId))]))

\* fetch_live_safety_alerts for the participant: a raising query skips the
\* participant; the final sort leaves one participant's descending stream
\* in its order.
FetchLiveSafetyAlerts(alert_docs, ema_docs, raises) ==
    IF raises THEN <<>>
    ELSE AlertEntries(alert_docs, EmaBySession(ema_docs, <<>>), <<>>)

notAlertCalcVars == <<exportVars, alertVars, statusVars, entryVars, statsCalc,
                      registryCalc, pool, session, progress>>

AlertCalcInit ==
    /\ ExportAtStartup
    /\ AlertCacheAtStartup
    /\ StatusCacheAtStartup
    /\ store = {}
    /\ tz_offset = 0
    /\ clock = 0
    /\ entryCalc = IdleEntryCalc
    /\ statsCalc = IdleStats
    /\ registryCalc = IdleRegistry
    /\ pool = IdlePool
    /\ session = NoSession
    /\ progress = IdleProgress
    /\ \E a \in AlertStreams, e \in EmaStreams :
         alertCalc = [IdleAlertCalc EXCEPT !.alert_docs = a, !.ema_docs = e]

\* alerts = fetch_live_safety_alerts()
F_Fetch ==
    /\ alertCalc.pc = "idle"
    /\ \E raises \in BOOLEAN :
         alertCalc' =
           [alertCalc EXCEPT
              !.pc = IF raises THEN "skipped" ELSE "done",
              !.alerts = FetchLiveSafetyAlerts(alertCalc.alert_docs,
                                               alertCalc.ema_docs, raises)]
    /\ UNCHANGED notAlertCalcVars

AlertCalcNext ==
    \/ F_Fetch

AlertCalcSpec == AlertCalcInit /\ [][AlertCalcNext]_vars

\* ------------------------------------------------ alert entries: properties
\* The fetched document an entry was built from.
DocOf(entry) == alertCalc.alert_docs[entry.alertId]

\* The fetched check-ins with the session id.
SameSession(sid) ==
    {i \in 1..Len(alertCalc.ema_docs) :
       sid # NoneId /\ alertCalc.ema_docs[i].sessionId = sid}

OwnResponses(entry) ==
    IF DocOf(entry).responses.form \in {"map", "json_map"}
      THEN DocOf(entry).responses.map
      ELSE EmptyDict

CheckinResponses(i) ==
    IF alertCalc.ema_docs[i].responses.form \in {"map", "json_map"}
      THEN alertCalc.ema_docs[i].responses.map
      ELSE EmptyDict

\* responses is own overlaid by full: full's value on every key of full,
\* own's value on the keys of own alone, and no other key.
IsOverlay(responses, own, full) ==
    /\ DOMAIN responses = DOMAIN own \cup DOMAIN full
    /\ \A k \in DOMAIN full : responses[k] = full[k]
    /\ \A k \in DOMAIN own \ DOMAIN full : responses[k] = own[k]

\* C34: for every alert entry, responses is the alert's own response map
\* overlaid by the response map of a fetched check-in with the same
\* sessionId (the check-in's value wins on a shared key, the alert's other
\* keys are kept); with no such check-in it is the alert's own map.
C34_ResponsesAreOverlay ==
    \A n \in 1..Len(alertCalc.alerts) :
      LET entry == alertCalc.alerts[n]
          matches == SameSession(entry.sessionId)
      IN  IF matches = {}
            THEN entry.responses = OwnResponses(entry)
            ELSE \E i \in matches :
                   IsOverlay(entry.responses, OwnResponses(entry),
                             CheckinResponses(i))

\* An entry whose map has an alert-only key, a shared key carrying the
\* check-in's value and a check-in-only key.
C34_Witness ==
    /\ alertCalc.pc = "done"
    /\ \E n \in 1..Len(alertCalc.alerts) :
         LET entry == alertCalc.alerts[n]
         IN  /\ SameSession(entry.sessionId) # {}
             /\ DOMAIN entry.responses = {"k1", "k2", "k3"}
             /\ entry.responses["k1"] = "alert"
             /\ entry.responses["k2"] = "checkin"
             /\ entry.responses["k3"] = "checkin"

\* ======================================================================
\* The progress counters of one level-3 export job, followed on their
\* own for larger numbers of attachment references: every write to
\* screenshotProgress is logged.
\* ======================================================================
\* Attachment references of the job.
MaxTotal == 8

notProgressVars == <<exportVars, alertVars, statusVars, entryVars, statsCalc,
                     registryCalc, pool, session, alertCalc>>

\* export_level >= 3 and screenshot_infos: total = len(screenshot_infos)
ProgressInit ==
    /\ ExportAtStartup
    /\ AlertCacheAtStartup
    /\ StatusCacheAtStartup
    /\ store = {}
    /\ tz_offset = 0
    /\ clock = 0
    /\ entryCalc = IdleEntryCalc
    /\ statsCalc = IdleStats
    /\ registryCalc = IdleRegistry
    /\ pool = IdlePool
    /\ session = NoSession
    /\ alertCalc = IdleAlertCalc
    /\ \E n \in 1..MaxTotal :
         progress = [IdleProgress EXCEPT !.pc = "total", !.total = n]

\* job_ref.update({"screenshotTotal": total, "screenshotProgress": 0})
U_Total ==
    /\ progress.pc = "total"
    /\ progress' = [progress EXCEPT !.pc = "download",
                                    !.screenshotTotal = progress.total,
                                    !.log = Append(progress.log, 0)]
    /\ UNCHANGED notProgressVars

\* downloaded = download_screenshots_concurrent(...): the fetches run, and
\* those that returned image bytes make up the list.
U_Download ==
    /\ progress.pc = "download"
    /\ \E d \in 0..progress.total :
         progress' = [progress EXCEPT !.pc = "write", !.downloaded = d]
    /\ UNCHANGED notProgressVars

\* One iteration of the loop over downloaded, with its checkpoint.
U_WriteOne ==
    /\ progress.pc = "write"
    /\ progress.idx < progress.downloaded
    /\ LET p == ProgressWrite(progress.idx, progress.downloaded,
                              progress.total)
       IN  progress' = [progress EXCEPT
                          !.idx = progress.idx + 1,
                          !.log = IF p >= 0 THEN Append(progress.log, p)
                                  ELSE progress.log]
    /\ UNCHANGED notProgressVars

\* zf.writestr raises: the job fails without another progress write.
U_WriteRaises ==
    /\ progress.pc = "write"
    /\ progress.idx < progress.downloaded
    /\ progress' = [progress EXCEPT !.pc = "failed"]
    /\ UNCHANGED notProgressVars

\* job_ref.update({"screenshotProgress": total})
U_Final ==
    /\ progress.pc = "write"
    /\ progress.idx = progress.downloaded
    /\ progress' = [progress EXCEPT !.pc = "done",
                                    !.log = Append(progress.log,
                                                   progress.total)]
    /\ UNCHANGED notProgressVars

ProgressNext ==
    \/ U_Total
    \/ U_Download
    \/ U_WriteOne
    \/ U_WriteRaises
    \/ U_Final

ProgressSpec == ProgressInit /\ [][ProgressNext]_vars

\* ---------------------------------------------------- progress: properties
FetchesStarted == progress.pc \notin {"idle", "total"}

\* C32: for a level-3 job with N >= 1 references, screenshotTotal is N
\* before any fetch starts; every value written to screenshotProgress is
\* between 0 and N and not lower than the one written before it; at most
\* five progress writes are made; and once the archive loop is through the
\* last one is N, whatever number of fetches failed.
C32_ProgressWrites ==
    LET log == progress.log
    IN  /\ FetchesStarted => progress.screenshotTotal = progress.total
        /\ \A i \in 1..Len(log) : 0 <= log[i] /\ log[i] <= progress.total
        /\ \A i \in 1..(Len(log) - 1) : log[i] <= log[i + 1]
        /\ Len(log) <= 5
        /\ progress.pc = "done" => log[Len(log)] = progress.total

\* Five writes, with failed fetches: 0, the three checkpoints and the total.
C32_Witness ==
    /\ progress.pc = "done"
    /\ progress.downloaded < progress.total
    /\ Len(progress.log) = 5
    /\ progress.log[2] < progress.log[3]
    /\ progress.log[3] < progress.log[4]
    /\ progress.log[4] < progress.log[5]

====
